---------------------------- MODULE Spec2Model ----------------------------
(***************************************************************************)
(* The document store of docs-scraper-mcp: scrapeDocs, deleteDocs,         *)
(* deleteAllDocs, getDoc and listDocs working on ~/scraped-docs.           *)
(*                                                                         *)
(* Storage is the directory tree the tools share: DOCS_DIR, one directory  *)
(* per domain holding the page files and _metadata.json, and index.json.   *)
(* Every tool is an async function; each await on the file system is one   *)
(* step of the model, so that two invocations served by the same process   *)
(* interleave exactly where the code can be suspended.                     *)
(*                                                                         *)
(* Strings the code computes with (paths, file names, domains) are         *)
(* sequences of one-character strings.  Page bodies and titles are only    *)
(* stored and handed back by these tools and are kept as atoms.            *)
(*                                                                         *)
(* Environment failures are the ones the code has a branch for: a read     *)
(* fails when the file is absent, a write into a missing directory fails,  *)
(* the crawl and the backup commit may fail, a write of scrapeDocs may     *)
(* throw (the scrape aborts), and the index update of deleteDocs may fail  *)
(* (the code swallows it).                                                 *)
(***************************************************************************)
EXTENDS Integers, Sequences, FiniteSets, TLC

\* ----------------------------------------------------------------- bounds

\* Mutating operations (scrape, delete, delete all) started in one run.
MaxOps == 3

\* Mutating operations started in one run of the overlapping specification.
MaxConcOps == 2

\* Pages in one crawl batch.
MaxBatch == 2

\* ---------------------------------------------------------------- strings

MD_EXT == <<".", "m", "d">>

RECURSIVE ReplaceChar(_, _, _)
\* String.prototype.replace(/c/g, r) for a one-character pattern.
ReplaceChar(s, c, r) ==
    IF s = <<>> THEN <<>>
    ELSE (IF Head(s) = c THEN r ELSE <<Head(s)>>) \o ReplaceChar(Tail(s), c, r)

\* replace(/^\//, "")
StripLeadingSlash(s) == IF s # <<>> /\ Head(s) = "/" THEN Tail(s) ELSE s

\* replace(/\/$/, "")
StripTrailingSlash(s) ==
    IF s # <<>> /\ s[Len(s)] = "/" THEN SubSeq(s, 1, Len(s) - 1) ELSE s

RECURSIVE ReplaceQueryChars(_)
\* replace(/[?&=]/g, "_")
ReplaceQueryChars(s) ==
    IF s = <<>> THEN <<>>
    ELSE (IF Head(s) \in {"?", "&", "="} THEN <<"_">> ELSE <<Head(s)>>)
             \o ReplaceQueryChars(Tail(s))

RECURSIVE CollapseUnderscores(_)
\* replace(/_+/g, "_")
CollapseUnderscores(s) ==
    IF Len(s) < 2 THEN s
    ELSE IF s[1] = "_" /\ s[2] = "_" THEN CollapseUnderscores(Tail(s))
    ELSE <<Head(s)>> \o CollapseUnderscores(Tail(s))

RECURSIVE RemoveFirst(_, _)
\* replace("#", ""): a string pattern replaces the first occurrence only.
RemoveFirst(s, c) ==
    IF s = <<>> THEN <<>>
    ELSE IF Head(s) = c THEN Tail(s)
    ELSE <<Head(s)>> \o RemoveFirst(Tail(s), c)

\* slice(0, n)
SliceTo(s, n) == IF Len(s) <= n THEN s ELSE SubSeq(s, 1, n)

\* endsWith(".md")
EndsWithMd(s) == Len(s) >= 3 /\ SubSeq(s, Len(s) - 2, Len(s)) = MD_EXT

DigitChar(n) == <<"0", "1", "2", "3", "4", "5", "6", "7", "8", "9">>[n + 1]

RECURSIVE NumToStr(_)
\* `${counter}` for a non-negative integer.
NumToStr(n) == IF n < 10 THEN <<DigitChar(n)>>
               ELSE NumToStr(n \div 10) \o <<DigitChar(n % 10)>>

\* \s
IsSpace(c) == c \in {" ", "\n", "\t"}

\* The first position >= i at which pat occurs in s, 0 when there is none.
IndexFrom(s, pat, i) ==
    LET hits == {j \in i..(Len(s) - Len(pat) + 1) :
                    SubSeq(s, j, j + Len(pat) - 1) = pat}
    IN IF hits = {} THEN 0 ELSE CHOOSE j \in hits : \A h \in hits : j <= h

\* The backquote character: a string of the module cannot hold it, so it is
\* the one character written as a word.
BACKQUOTE == "backquote"

FENCE == <<BACKQUOTE, BACKQUOTE, BACKQUOTE>>

RECURSIVE RemoveCodeBlocks(_)
\* replace(/```[\s\S]*?```/g, "")
RemoveCodeBlocks(s) ==
    IF s = <<>> THEN <<>>
    ELSE LET close == IF IndexFrom(s, FENCE, 1) = 1
                      THEN IndexFrom(s, FENCE, 4) ELSE 0
         IN IF close # 0
            THEN RemoveCodeBlocks(SubSeq(s, close + 3, Len(s)))
            ELSE <<Head(s)>> \o RemoveCodeBlocks(Tail(s))

RECURSIVE RemoveInlineCode(_)
\* replace(/`[^`]+`/g, "")
RemoveInlineCode(s) ==
    IF s = <<>> THEN <<>>
    ELSE LET close == IF Head(s) = BACKQUOTE THEN IndexFrom(s, <<BACKQUOTE>>, 2) ELSE 0
         IN IF close > 2
            THEN RemoveInlineCode(SubSeq(s, close + 1, Len(s)))
            ELSE <<Head(s)>> \o RemoveInlineCode(Tail(s))

RECURSIVE LinksToText(_)
\* replace(/\[([^\]]+)\]\([^)]+\)/g, "$1")
LinksToText(s) ==
    IF s = <<>> THEN <<>>
    ELSE LET mid == IF Head(s) = "[" THEN IndexFrom(s, <<"]">>, 2) ELSE 0
             end == IF mid > 2 /\ mid < Len(s) /\ s[mid + 1] = "("
                    THEN IndexFrom(s, <<")">>, mid + 2) ELSE 0
         IN IF end > mid + 2
            THEN SubSeq(s, 2, mid - 1) \o LinksToText(SubSeq(s, end + 1, Len(s)))
            ELSE <<Head(s)>> \o LinksToText(Tail(s))

\* The markup symbols left where they are.
RemoveMarkdownSymbolsNone(s) == s

\* replace(/[#*_~`>]/g, "")
RemoveMarkdownSymbols(s) ==
    SelectSeq(s, LAMBDA c : c \notin {"#", "*", "_", "~", BACKQUOTE, ">"})

RECURSIVE CollapseSpaces(_)
\* replace(/\s+/g, " ")
CollapseSpaces(s) ==
    IF s = <<>> THEN <<>>
    ELSE IF IsSpace(Head(s))
    THEN IF Len(s) > 1 /\ IsSpace(s[2]) THEN CollapseSpaces(Tail(s))
         ELSE <<" ">> \o CollapseSpaces(Tail(s))
    ELSE <<Head(s)>> \o CollapseSpaces(Tail(s))

RECURSIVE Trim(_)
\* trim()
Trim(s) ==
    IF s = <<>> THEN <<>>
    ELSE IF IsSpace(Head(s)) THEN Trim(Tail(s))
    ELSE IF IsSpace(s[Len(s)]) THEN Trim(SubSeq(s, 1, Len(s) - 1))
    ELSE s

\* split(/\s+/).filter(Boolean).length: the maximal runs of non-space
\* characters.
WordStarts(s) ==
    {i \in 1..Len(s) : ~IsSpace(s[i]) /\ (i = 1 \/ IsSpace(s[i - 1]))}

countWords(content) ==
    LET cleaned == Trim(CollapseSpaces(RemoveMarkdownSymbols(
                       LinksToText(RemoveInlineCode(RemoveCodeBlocks(content))))))
    IN IF cleaned = <<>> THEN 0 ELSE Cardinality(WordStarts(cleaned))

\* toLowerCase(), on the letters the model's texts are written with.
\* Pieces of markdown that texts are put together from: a heading, a blank
\* line, a word with a space, a word in emphasis with a full stop, inline
\* code, a link.
Fragments ==
    { <<"#", " ", "T", "i", "t", "l", "e">>,
      <<"\n", "\n">>,
      <<"H", "e", "l", "l", "o", " ">>,
      <<"*", "*", "w", "o", "r", "l", "d", "*", "*", ".">>,
      <<BACKQUOTE, "x", " ", "y", BACKQUOTE>>,
      <<"[", "t", " ", "u", "]", "(", "v", ")">> }

MaxFragments == 4

RECURSIVE Concat(_)
Concat(parts) == IF parts = <<>> THEN <<>> ELSE Head(parts) \o Concat(Tail(parts))

\* The texts whose words are counted.
Texts == {Concat(parts) : parts \in UNION {[1..n -> Fragments] : n \in 0..MaxFragments}}

LowerChar(c) == CASE c = "A" -> "a" [] c = "B" -> "b" [] OTHER -> c

ToLower(s) == [i \in 1..Len(s) |-> LowerChar(s[i])]

\* includes(pat)
Includes(s, pat) == IndexFrom(s, pat, 1) # 0

RECURSIVE CountMatches(_, _)
\* content.match(new RegExp(pat, "gi"))?.length ?? 0, for an escaped, that
\* is literal, non-empty pattern: the matches are taken from the left and do
\* not overlap.
CountMatches(content, pat) ==
    LET at == IndexFrom(ToLower(content), ToLower(pat), 1)
    IN IF pat = <<>> \/ at = 0 THEN 0
       ELSE 1 + CountMatches(SubSeq(content, at + Len(pat), Len(content)), pat)

RECURSIVE SplitWords(_)
\* split(/\s+/).filter(Boolean): the words of s, in order.
SplitWords(s) ==
    LET t == Trim(s)
        ends == {i \in 1..Len(t) : IsSpace(t[i])}
        cut == IF ends = {} THEN Len(t) + 1
               ELSE CHOOSE i \in ends : \A j \in ends : i <= j
    IN IF t = <<>> THEN <<>>
       ELSE <<SubSeq(t, 1, cut - 1)>> \o SplitWords(SubSeq(t, cut, Len(t)))

\* ------------------------------------------------------------------- urls

\* A parsed URL, as new URL(...) gives it: hostname, pathname, search (empty
\* or starting with "?"), hash (empty or starting with "#").  ok = FALSE is a
\* string new URL() throws on.
Url(host, pathname, search, hash) ==
    [ok |-> TRUE, hostname |-> host, pathname |-> pathname,
     search |-> search, hash |-> hash]

HostAB == <<"a", ".", "b">>
HostC  == <<"c">>

RootAB == Url(HostAB, <<"/">>, <<>>, <<>>)
RootC  == Url(HostC, <<"/">>, <<>>, <<>>)

\* The crawl roots a caller scrapes.
ScrapeUrls == {RootAB, RootC}

FILENAME_LIMIT == 200

urlToDomain(url) == ReplaceChar(url.hostname, ".", <<"-">>)

urlToFilename(sourceUrl) ==
    IF ~sourceUrl.ok THEN <<"p", "a", "g", "e">> \o MD_EXT
    ELSE LET relativePath ==
                 StripTrailingSlash(StripLeadingSlash(sourceUrl.pathname))
         IN IF relativePath = <<>> THEN <<"i", "n", "d", "e", "x">> \o MD_EXT
            ELSE LET f0 == ReplaceChar(relativePath, "/", <<"_">>)
                     f1 == IF sourceUrl.search # <<>>
                           THEN f0 \o <<"_">> \o CollapseUnderscores(
                                    ReplaceQueryChars(sourceUrl.search))
                           ELSE f0
                     f2 == IF sourceUrl.hash # <<>>
                           THEN f1 \o <<"_">> \o RemoveFirst(sourceUrl.hash, "#")
                           ELSE f1
                 IN SliceTo(f2, FILENAME_LIMIT) \o MD_EXT

\* The name kept as it is, used or not.
ResolveCollisionNone(filename, counter, usedFilenames) == filename

RECURSIVE ResolveCollision(_, _, _)
\* The while loop over usedFilenames: the suffix is appended to the name the
\* previous round produced.
ResolveCollision(filename, counter, usedFilenames) ==
    IF filename \in usedFilenames
    THEN ResolveCollision(
             SubSeq(filename, 1, Len(filename) - Len(MD_EXT))
                 \o <<"_">> \o NumToStr(counter) \o MD_EXT,
             counter + 1, usedFilenames)
    ELSE filename

\* ------------------------------------------------------------------ pages

\* What the crawl provider can return for a root: PageData records, with
\* metadata.sourceURL and metadata.title optional (a sequence of length 0 or
\* 1) and the markdown body.  /a and /a/ resolve to the same file name.
BodyOne == <<"a", "b", " ", "a", "b">>
BodyTwo == <<"#", " ", "A", "b">>

PagePool(root) ==
    << [sourceURL |-> <<Url(root.hostname, <<"/", "a">>, <<>>, <<>>)>>,
        title |-> <<"A">>, markdown |-> BodyOne],
       [sourceURL |-> <<Url(root.hostname, <<"/", "a", "/">>, <<>>, <<>>)>>,
        title |-> <<>>, markdown |-> BodyTwo] >>

PoolSize == Len(PagePool(RootAB))

\* The batches a crawl can complete with, as indexes into the pool.
Batches == UNION {[1..n -> 1..PoolSize] : n \in 0..MaxBatch}

\* A page whose URL path ends in .md itself.
MdPage(root) ==
    [sourceURL |-> <<Url(root.hostname, <<"/", "a">> \o MD_EXT, <<>>, <<>>)>>,
     title |-> <<"M">>, markdown |-> <<"c">>]

FullPool(root) == PagePool(root) \o <<MdPage(root)>>

\* The batches that can hold that page too.
DocBatches == UNION {[1..n -> 1..Len(FullPool(RootAB))] : n \in 0..MaxBatch}

PagesOf(url, batch) == [k \in 1..Len(batch) |-> FullPool(url)[batch[k]]]

\* options.tags of a scrape that is given tags; <<>> when it is given none.
Tagged == << <<"t">> >>

\* Domain names a caller passes to delete_docs and get_doc: the two stored
\* ones and one that is never scraped.
DomainArgs == {urlToDomain(RootAB), urlToDomain(RootC), <<"z">>}

\* ------------------------------------------------------------------ state

VARIABLES
    rootExists,  \* DOCS_DIR exists
    files,       \* domain directory -> (page file name -> content)
    meta,        \* domain directory -> its _metadata.json
    indexFile,   \* index.json: <<>> when absent, else <<DocsIndex>>
    op,          \* slot -> the invocation running or last finished there
    clock,       \* mutating invocations started so far; their timestamps
    overlap,     \* the invocations in the two slots overlapped in time
    staleEntries, \* not a variable of the code: the domains whose index
                  \* entry a deletion failed to remove and nothing rewrote
    assigned,     \* not a variable of the code: domain -> the highest
                  \* version a scrape has stored for it so far, 0 for none
    repo          \* the backup repository: its commit objects and the ref of
                  \* its default branch, followed in the runs of commitFiles

vars == <<rootExists, files, meta, indexFile, op, clock, overlap, staleEntries,
         assigned, repo>>

fsVars == <<rootExists, files, meta, indexFile>>

Slots == {1, 2}

Idle == [kind |-> "none", pc |-> "idle"]

Running(s) == op[s].pc \notin {"idle", "done", "failed"}

dirs == DOMAIN files

Put(f, k, v) == [x \in DOMAIN f \cup {k} |-> IF x = k THEN v ELSE f[x]]

Drop(f, k) == [x \in DOMAIN f \ {k} |-> f[x]]

EmptyMap == [x \in {} |-> x]

Init ==
    /\ rootExists = FALSE
    /\ files = EmptyMap
    /\ meta = EmptyMap
    /\ indexFile = <<>>
    /\ op = [s \in Slots |-> Idle]
    /\ clock = 0
    /\ overlap = FALSE
    /\ staleEntries = {}
    /\ assigned = [d \in DomainArgs |-> 0]
    /\ repo = [commits |-> <<>>, head |-> <<>>]

\* What stays of an invocation when it has ended: its arguments, not the
\* locals of its loop.
Ended(o) ==
    [f \in DOMAIN o \ {"i", "usedFilenames", "scrapedPages", "index",
                        "entries", "current"} |-> o[f]]

\* An invocation ends: with its return value, or with the error it throws.
Return(s, fields) ==
    op' = [op EXCEPT ![s] = fields @@ Ended([@ EXCEPT !.pc = "done"])]

Throw(s, error) ==
    op' = [op EXCEPT ![s] = [error |-> error] @@ Ended([@ EXCEPT !.pc = "failed"])]

Goto(s, pc, fields) == op' = [op EXCEPT ![s] = fields @@ [@ EXCEPT !.pc = pc]]

\* A mutating invocation starts in the free slot s.
Begin(s, rec) ==
    /\ op[s] = Idle
    /\ clock' = clock + 1
    /\ overlap' = (\E o \in Slots \ {s} : Running(o))
    /\ op' = [op EXCEPT ![s] = rec]
    /\ UNCHANGED <<staleEntries, assigned, repo>>

\* ----------------------------------------------------------------- scrape

\* metadata.version, when a re-scrape keeps the stored version.
ScrapeVersionKept(existingVersion) ==
    IF existingVersion = 0 THEN 1 ELSE existingVersion

\* metadata.version
ScrapeVersion(existingVersion) == existingVersion + 1

\* The order of the persistence phase with the index updated before the
\* metadata is saved.
ScrapeAfterIndexFirst(pc, more) ==
    CASE pc = "mkdir" -> "version"
      [] pc = "version" -> IF more THEN "page" ELSE "readIndex"
      [] pc = "page" -> IF more THEN "page" ELSE "readIndex"
      [] pc = "readIndex" -> "writeIndex"
      [] pc = "writeIndex" -> "meta"
      [] pc = "meta" -> "commit"

\* The order of the persistence phase: where scrapeDocs continues after the
\* await at pc, with more pages left to write or not.
ScrapeAfter(pc, more) ==
    CASE pc = "mkdir" -> "version"
      [] pc = "version" -> IF more THEN "page" ELSE "meta"
      [] pc = "page" -> IF more THEN "page" ELSE "meta"
      [] pc = "meta" -> "readIndex"
      [] pc = "readIndex" -> "writeIndex"
      [] pc = "writeIndex" -> "commit"

\* scrapeDocs up to the crawl's result: the crawl either throws, and nothing
\* has been touched, or returns the batch.
ScrapeStart(s, url, batch, tags) ==
    /\ Begin(s, [kind |-> "scrape", pc |-> "mkdir", url |-> url, tags |-> tags,
                 domain |-> urlToDomain(url), batch |-> batch,
                 t |-> clock + 1, existingVersion |-> 0, i |-> 1,
                 usedFilenames |-> {}, scrapedPages |-> <<>>,
                 totalWordCount |-> 0,
                 index |-> <<>>])
    /\ UNCHANGED fsVars

\* The directory of the domain made before the crawl is awaited.
ScrapeCrawlFailsAfterMkdir(s, url) ==
    /\ Begin(s, [kind |-> "scrape", pc |-> "failed", url |-> url,
                 domain |-> urlToDomain(url), batch |-> <<>>,
                 t |-> clock + 1, error |-> "CrawlFailed"])
    /\ rootExists' = TRUE
    /\ files' = IF urlToDomain(url) \in dirs THEN files
                ELSE Put(files, urlToDomain(url), EmptyMap)
    /\ UNCHANGED <<meta, indexFile>>

ScrapeCrawlFails(s, url) ==
    /\ Begin(s, [kind |-> "scrape", pc |-> "failed", url |-> url,
                 domain |-> urlToDomain(url), batch |-> <<>>,
                 t |-> clock + 1, error |-> "CrawlFailed"])
    /\ UNCHANGED fsVars

\* fs.mkdir(domainDir, {recursive: true})
ScrapeMkdir(s) ==
    /\ op[s].kind = "scrape" /\ op[s].pc = "mkdir"
    /\ rootExists' = TRUE
    /\ files' = IF op[s].domain \in dirs THEN files
                ELSE Put(files, op[s].domain, EmptyMap)
    /\ Goto(s, ScrapeAfter("mkdir", op[s].batch # <<>>), <<>>)
    /\ UNCHANGED <<meta, indexFile, clock, overlap, staleEntries, assigned, repo>>

\* The read of the existing _metadata.json; absent counts as version 0.
ScrapeReadVersion(s) ==
    /\ op[s].kind = "scrape" /\ op[s].pc = "version"
    /\ Goto(s, ScrapeAfter("version", op[s].batch # <<>>),
            [existingVersion |->
                IF op[s].domain \in DOMAIN meta
                THEN meta[op[s].domain].version ELSE 0])
    /\ UNCHANGED <<fsVars, clock, overlap, staleEntries, assigned, repo>>

\* The round with the names of the files in the directory taken as used.
ScrapePageRecordOnDisk(o) ==
    LET page == PagesOf(o.url, o.batch)[o.i]
        sourceUrl == IF page.sourceURL # <<>> THEN page.sourceURL[1] ELSE o.url
        title == IF page.title # <<>> THEN page.title[1] ELSE "Untitled"
        stored == IF o.domain \in dirs THEN DOMAIN files[o.domain] ELSE {}
        filename == ResolveCollision(urlToFilename(sourceUrl), 1,
                                     o.usedFilenames \cup stored)
    IN [path |-> filename, sourceUrl |-> sourceUrl, title |-> title,
        markdown |-> page.markdown, wordCount |-> countWords(page.markdown)]

\* One round of the loop over the pages, up to its fs.writeFile.
ScrapePageRecord(o) ==
    LET page == PagesOf(o.url, o.batch)[o.i]
        sourceUrl == IF page.sourceURL # <<>> THEN page.sourceURL[1] ELSE o.url
        title == IF page.title # <<>> THEN page.title[1] ELSE "Untitled"
        filename == ResolveCollision(urlToFilename(sourceUrl), 1, o.usedFilenames)
    IN [path |-> filename, sourceUrl |-> sourceUrl, title |-> title,
        markdown |-> page.markdown, wordCount |-> countWords(page.markdown)]

ScrapeWritePage(s) ==
    /\ op[s].kind = "scrape" /\ op[s].pc = "page"
    /\ LET o == op[s]
           r == ScrapePageRecord(o)
       IN IF o.domain \in dirs
          THEN /\ files' = [files EXCEPT ![o.domain] = Put(@, r.path, r.markdown)]
               /\ Goto(s, ScrapeAfter("page", o.i < Len(o.batch)),
                       [i |-> o.i + 1,
                        usedFilenames |-> o.usedFilenames \cup {r.path},
                        totalWordCount |-> o.totalWordCount + r.wordCount,
                        scrapedPages |-> Append(o.scrapedPages,
                            [path |-> r.path, sourceUrl |-> r.sourceUrl,
                             title |-> r.title, wordCount |-> r.wordCount])])
          ELSE /\ Throw(s, "StorageError")
               /\ UNCHANGED files
    /\ UNCHANGED <<rootExists, meta, indexFile, clock, overlap, staleEntries, assigned, repo>>

\* The record with the pages of the stored metadata kept in front of the new
\* ones.
ScrapeMetadataMerged(o) ==
    [domain |-> o.domain, sourceUrl |-> o.url, scrapedAt |-> o.t,
     pageCount |-> Len(o.batch), totalWordCount |-> o.totalWordCount,
     tags |-> o.tags,
     pages |-> (IF o.domain \in DOMAIN meta /\ meta[o.domain].scrapedAt # o.t
                THEN meta[o.domain].pages ELSE <<>>) \o o.scrapedPages,
     version |-> ScrapeVersion(o.existingVersion)]

\* The ScrapeMetadata record the scrape builds.
ScrapeMetadata(o) ==
    [domain |-> o.domain, sourceUrl |-> o.url, scrapedAt |-> o.t,
     pageCount |-> Len(o.batch), totalWordCount |-> o.totalWordCount,
     tags |-> o.tags,
     pages |-> o.scrapedPages,
     version |-> ScrapeVersion(o.existingVersion)]

ScrapeWriteMeta(s) ==
    /\ op[s].kind = "scrape" /\ op[s].pc = "meta"
    /\ IF op[s].domain \in dirs
       THEN /\ meta' = Put(meta, op[s].domain, ScrapeMetadata(op[s]))
            /\ assigned' = [assigned EXCEPT ![op[s].domain] =
                               IF ScrapeMetadata(op[s]).version > @
                               THEN ScrapeMetadata(op[s]).version ELSE @]
            /\ Goto(s, ScrapeAfter("meta", FALSE), <<>>)
       ELSE /\ Throw(s, "StorageError")
            /\ UNCHANGED <<meta, assigned>>
    /\ UNCHANGED <<rootExists, files, indexFile, clock, overlap, staleEntries,
                   repo>>

EmptyIndex(t) == [version |-> 1, lastUpdated |-> t, sites |-> EmptyMap]

\* The read of index.json; absent counts as a fresh index.
ScrapeReadIndex(s) ==
    /\ op[s].kind = "scrape" /\ op[s].pc = "readIndex"
    /\ Goto(s, ScrapeAfter("readIndex", FALSE),
            [index |-> IF indexFile # <<>> THEN indexFile
                       ELSE <<EmptyIndex(op[s].t)>>])
    /\ UNCHANGED <<fsVars, clock, overlap, staleEntries, assigned, repo>>

\* The entry with the tags of the scrape left out.
ScrapeSiteEntryUntagged(o) ==
    LET m == ScrapeMetadata(o)
    IN [scrapedAt |-> m.scrapedAt, pageCount |-> m.pageCount,
        sourceUrl |-> o.url, tags |-> <<>>, version |-> m.version,
        totalWordCount |-> o.totalWordCount]

\* index.sites[domain] = {...}
ScrapeSiteEntry(o) ==
    LET m == ScrapeMetadata(o)
    IN [scrapedAt |-> m.scrapedAt, pageCount |-> m.pageCount,
        sourceUrl |-> o.url, tags |-> o.tags, version |-> m.version,
        totalWordCount |-> o.totalWordCount]

ScrapeWriteIndex(s) ==
    /\ op[s].kind = "scrape" /\ op[s].pc = "writeIndex"
    /\ LET o == op[s]
           index == [o.index[1] EXCEPT
                        !.sites = Put(@, o.domain, ScrapeSiteEntry(o)),
                        !.lastUpdated = o.t]
       IN IF rootExists
          THEN /\ indexFile' = <<index>>
               /\ staleEntries' = staleEntries \ {o.domain}
               /\ Goto(s, ScrapeAfter("writeIndex", FALSE), [index |-> <<index>>])
          ELSE /\ Throw(s, "StorageError")
               /\ UNCHANGED <<indexFile, staleEntries>>
    /\ UNCHANGED <<rootExists, files, meta, clock, overlap, assigned, repo>>

\* The backup commit with the metadata and the index entry of the scrape
\* taken back when it fails.
ScrapeCommitRollsBack(s) ==
    /\ op[s].kind = "scrape" /\ op[s].pc = "commit"
    /\ \/ /\ Return(s, [pageCount |-> Len(op[s].batch)])
          /\ UNCHANGED <<meta, indexFile>>
       \/ /\ Throw(s, "BackupError")
          /\ meta' = Drop(meta, op[s].domain)
          /\ indexFile' = <<[indexFile[1] EXCEPT !.sites = Drop(@, op[s].domain)]>>
    /\ UNCHANGED <<rootExists, files, clock, overlap, staleEntries, assigned, repo>>

\* The backup commit: skipped (options.skipGitHub), made, or failed.  The
\* option is read here and nowhere before.
ScrapeCommit(s) ==
    /\ op[s].kind = "scrape" /\ op[s].pc = "commit"
    /\ \/ Return(s, [pageCount |-> Len(op[s].batch)])
       \/ Throw(s, "BackupError")
    /\ UNCHANGED <<fsVars, clock, overlap, staleEntries, assigned, repo>>

\* A write of the scrape throws (mkdir or writeFile rejects): scrapeDocs has
\* no handler, so the invocation ends there with what it wrote so far.
ScrapeAbort(s) ==
    /\ op[s].kind = "scrape"
    /\ op[s].pc \in {"mkdir", "page", "meta", "writeIndex"}
    /\ Throw(s, "StorageError")
    /\ UNCHANGED <<fsVars, clock, overlap, staleEntries, assigned, repo>>

\* ----------------------------------------------------------------- delete

\* The check that is left out.
DomainUnchecked(domain) == TRUE

\* fs.access(domainDir) succeeds.
DomainExists(domain) == domain \in dirs

\* files.filter((f) => f.endsWith(".md")).length
CountMd(dir) == Cardinality({f \in DOMAIN dir : EndsWithMd(f)})

\* deleteDocs up to fs.access(domainDir).  metaBefore is not a variable of
\* the code: it remembers the domain's metadata as the deletion found it.
DeleteStart(s, domain) ==
    /\ DomainExists(domain)
    /\ Begin(s, [kind |-> "delete", pc |-> "count", domain |-> domain,
                 t |-> clock + 1, pagesDeleted |-> 0, index |-> <<>>,
                 metaBefore |-> IF domain \in DOMAIN meta
                                THEN <<meta[domain]>> ELSE <<>>])
    /\ UNCHANGED fsVars

DeleteNotFound(s, domain) ==
    /\ ~DomainExists(domain)
    /\ Begin(s, [kind |-> "delete", pc |-> "failed", domain |-> domain,
                 t |-> clock + 1, error |-> "DomainNotFound"])
    /\ UNCHANGED fsVars

\* fs.readdir(domainDir) and the count of its .md files; a failure of the
\* readdir is ignored.
DeleteCount(s) ==
    /\ op[s].kind = "delete" /\ op[s].pc = "count"
    /\ Goto(s, "rm",
            [pagesDeleted |-> IF op[s].domain \in dirs
                              THEN CountMd(files[op[s].domain]) ELSE 0])
    /\ UNCHANGED <<fsVars, clock, overlap, staleEntries, assigned, repo>>

\* fs.rm(domainDir, {recursive: true, force: true})
DeleteRm(s) ==
    /\ op[s].kind = "delete" /\ op[s].pc = "rm"
    /\ files' = Drop(files, op[s].domain)
    /\ meta' = Drop(meta, op[s].domain)
    /\ Goto(s, "readIndex", <<>>)
    /\ UNCHANGED <<rootExists, indexFile, clock, overlap, staleEntries, assigned, repo>>

\* The deletion ending after the rm, with the index left as it is.
DeleteReadIndexSkipped(s) ==
    /\ op[s].kind = "delete" /\ op[s].pc = "readIndex"
    /\ Return(s, <<>>)
    /\ UNCHANGED <<fsVars, clock, overlap, staleEntries, assigned, repo>>

\* The read of index.json inside the try: an absent index, or one without
\* the domain, ends the deletion.
DeleteReadIndex(s) ==
    /\ op[s].kind = "delete" /\ op[s].pc = "readIndex"
    /\ IF indexFile # <<>> /\ op[s].domain \in DOMAIN indexFile[1].sites
       THEN Goto(s, "writeIndex",
                 [index |-> <<[indexFile[1] EXCEPT
                                  !.sites = Drop(@, op[s].domain),
                                  !.lastUpdated = op[s].t]>>])
       ELSE Return(s, <<>>)
    /\ UNCHANGED <<fsVars, clock, overlap, staleEntries, assigned, repo>>

\* The write of the index without the domain's entry.
DeleteWriteIndex(s) ==
    /\ op[s].kind = "delete" /\ op[s].pc = "writeIndex"
    /\ indexFile' = op[s].index
    /\ staleEntries' = staleEntries \ {op[s].domain}
    /\ Return(s, <<>>)
    /\ UNCHANGED <<rootExists, files, meta, clock, overlap, assigned, repo>>

\* The write throws and the deletion throws it on.
DeleteIndexFailsThrown(s) ==
    /\ op[s].kind = "delete" /\ op[s].pc = "writeIndex"
    /\ Throw(s, "StorageError")
    /\ staleEntries' = staleEntries \cup {op[s].domain}
    /\ UNCHANGED <<fsVars, clock, overlap, assigned, repo>>

\* The write throws inside the try: the catch swallows it and deleteDocs
\* returns its result all the same.
DeleteIndexFails(s) ==
    /\ op[s].kind = "delete" /\ op[s].pc = "writeIndex"
    /\ Return(s, [indexFailed |-> TRUE])
    /\ staleEntries' = staleEntries \cup {op[s].domain}
    /\ UNCHANGED <<fsVars, clock, overlap, assigned, repo>>

\* ------------------------------------------------------------- delete all

RECURSIVE SumMd(_, _)
SumMd(fs, ds) ==
    IF ds = {} THEN 0
    ELSE LET d == CHOOSE x \in ds : TRUE
         IN CountMd(fs[d]) + SumMd(fs, ds \ {d})

\* deleteAllDocs up to fs.readdir(DOCS_DIR, {withFileTypes: true}); without
\* DOCS_DIR the readdir throws and the catch returns the zero counts.
\* dirsBefore and pagesBefore are not variables of the code: they remember
\* what was stored when the invocation started.
DeleteAllStart(s) ==
    /\ Begin(s, [kind |-> "deleteAll",
                 pc |-> IF ~rootExists THEN "done"
                        ELSE IF dirs = {} THEN "reset" ELSE "entry",
                 t |-> clock + 1, entries |-> IF rootExists THEN dirs ELSE {},
                 current |-> <<>>, domainsDeleted |-> 0,
                 totalPagesDeleted |-> 0,
                 dirsBefore |-> Cardinality(dirs),
                 pagesBefore |-> SumMd(files, dirs)])
    /\ UNCHANGED fsVars

\* The next directory entry and fs.readdir(domainDir); the order of the
\* entries is the file system's.  A directory gone by now makes the readdir
\* throw, and the catch ends the invocation with the counts so far.
DeleteAllCount(s) ==
    /\ op[s].kind = "deleteAll" /\ op[s].pc = "entry"
    /\ \E e \in op[s].entries :
          IF e \in dirs
          THEN Goto(s, "rmEntry",
                    [current |-> <<e>>, entries |-> op[s].entries \ {e},
                     totalPagesDeleted |->
                         op[s].totalPagesDeleted + CountMd(files[e])])
          ELSE Return(s, <<>>)
    /\ UNCHANGED <<fsVars, clock, overlap, staleEntries, assigned, repo>>

\* fs.rm(domainDir, {recursive: true, force: true}); domainsDeleted++
DeleteAllRm(s) ==
    /\ op[s].kind = "deleteAll" /\ op[s].pc = "rmEntry"
    /\ files' = Drop(files, op[s].current[1])
    /\ meta' = Drop(meta, op[s].current[1])
    /\ Goto(s, IF op[s].entries = {} THEN "reset" ELSE "entry",
            [current |-> <<>>, domainsDeleted |-> op[s].domainsDeleted + 1])
    /\ UNCHANGED <<rootExists, indexFile, clock, overlap, staleEntries, assigned, repo>>

\* The invocation ending after the loop, with the index left as it is.
DeleteAllResetSkipped(s) ==
    /\ op[s].kind = "deleteAll" /\ op[s].pc = "reset"
    /\ Return(s, <<>>)
    /\ UNCHANGED <<fsVars, clock, overlap, staleEntries, assigned, repo>>

\* The write of the empty index.
DeleteAllReset(s) ==
    /\ op[s].kind = "deleteAll" /\ op[s].pc = "reset"
    /\ indexFile' = <<EmptyIndex(op[s].t)>>
    /\ staleEntries' = {}
    /\ Return(s, <<>>)
    /\ UNCHANGED <<rootExists, files, meta, clock, overlap, assigned, repo>>

\* ------------------------------------------------------------------ reads

\* Paths a caller asks get_doc for: with and without the extension, stored
\* or not.
PathArgs ==
    { <<"a">> \o MD_EXT, <<"a">>, <<"a", "_", "1">> \o MD_EXT, <<"q">> }

\* `Title: ${page.title}\nSource: ${page.sourceUrl}`
DocSummary(page) == <<"Title: ", page.title, "\nSource: ", page.sourceUrl>>

\* getDoc without a path: the pages of the metadata, in its order.
GetDocList(domain) ==
    [k \in 1..Len(meta[domain].pages) |->
        [path |-> meta[domain].pages[k].path,
         content |-> DocSummary(meta[domain].pages[k])]]

\* getDoc without a path and without readable metadata: the .md files of
\* the directory.
GetDocFallback(domain) ==
    {[path |-> f, content |-> "(content available - specify path to retrieve)"] :
        f \in {g \in DOMAIN files[domain] : EndsWithMd(g)}}

\* docPath.endsWith(".md") ? docPath : `${docPath}.md`
DocFile(docPath) == IF EndsWithMd(docPath) THEN docPath ELSE docPath \o MD_EXT

\* What getDoc(domain, docPath) answers in the current state; docPath is
\* <<>> when not given.
GetDocReply(domain, docPath) ==
    IF ~DomainExists(domain)
    THEN [pc |-> "failed", error |-> "DomainNotFound"]
    ELSE IF docPath # <<>>
    THEN IF domain \in dirs /\ DocFile(docPath[1]) \in DOMAIN files[domain]
         THEN [pc |-> "done",
               doc |-> [path |-> docPath[1],
                        content |-> files[domain][DocFile(docPath[1])]]]
         ELSE [pc |-> "failed", error |-> "DocumentNotFound"]
    ELSE IF domain \in DOMAIN meta
    THEN [pc |-> "done", list |-> GetDocList(domain)]
    ELSE IF domain \in dirs
    THEN [pc |-> "done", fallback |-> GetDocFallback(domain)]
    ELSE [pc |-> "failed", error |-> "StorageError"]

\* A read-only invocation: it takes a free slot and ends in the same step.
BeginRead(s, rec) ==
    /\ op[s] = Idle
    /\ op' = [op EXCEPT ![s] = rec]
    /\ overlap' = (\E o \in Slots \ {s} : Running(o))
    /\ UNCHANGED <<fsVars, clock, staleEntries, assigned, repo>>

GetDoc(s, domain, docPath) ==
    BeginRead(s, [kind |-> "get", domain |-> domain, docPath |-> docPath]
                     @@ GetDocReply(domain, docPath))

\* Object.entries(index.sites).map(...); [] when the index cannot be read.
SiteInfos ==
    IF indexFile = <<>> THEN {}
    ELSE {[domain |-> d, sourceUrl |-> indexFile[1].sites[d].sourceUrl,
           scrapedAt |-> indexFile[1].sites[d].scrapedAt,
           pageCount |-> indexFile[1].sites[d].pageCount] :
              d \in DOMAIN indexFile[1].sites}

ListDocs(s) == BeginRead(s, [kind |-> "list", pc |-> "done", sites |-> SiteInfos])

RECURSIVE SumSites(_, _, _)
\* The running totals of the loop over Object.entries(index.sites).
SumSites(sites, ds, field) ==
    IF ds = {} THEN 0
    ELSE LET d == CHOOSE x \in ds : TRUE
         IN sites[d][field] + SumSites(sites, ds \ {d}, field)

NoStats == [totalDomains |-> 0, totalPages |-> 0, totalWordCount |-> 0,
            domains |-> {}]

\* getStats with the failed read of the index thrown on.
StatsReplyUncaught ==
    IF indexFile = <<>> THEN [pc |-> "failed", error |-> "StorageError"]
    ELSE [pc |-> "done"] @@ NoStats

\* What getStats answers in the current state.
StatsReply ==
    IF indexFile = <<>> THEN [pc |-> "done"] @@ NoStats
    ELSE LET sites == indexFile[1].sites
         IN [pc |-> "done",
             totalDomains |-> Cardinality(DOMAIN sites),
             totalPages |-> SumSites(sites, DOMAIN sites, "pageCount"),
             totalWordCount |-> SumSites(sites, DOMAIN sites, "totalWordCount"),
             domains |-> {[domain |-> d, pages |-> sites[d].pageCount,
                           words |-> sites[d].totalWordCount] :
                             d \in DOMAIN sites}]

GetStats(s) == BeginRead(s, [kind |-> "stats"] @@ StatsReply)

\* ----------------------------------------------------------------- search

PHRASE_SCORE == 100

PHRASE_MATCH_SCORE == 10

WORD_MATCH_SCORE == 5

MIN_WORD_LENGTH == 2

TITLE_BONUS == 50

TITLE_AREA == 200

\* The phrase part with the first occurrence not counted again.
PhraseScoreAdditional(content, query) ==
    IF Includes(ToLower(content), ToLower(query))
    THEN PHRASE_SCORE + (CountMatches(content, ToLower(query)) - 1) * PHRASE_MATCH_SCORE
    ELSE 0

\* calculateScore, the exact phrase match.
PhraseScore(content, query) ==
    IF Includes(ToLower(content), ToLower(query))
    THEN PHRASE_SCORE + CountMatches(content, ToLower(query)) * PHRASE_MATCH_SCORE
    ELSE 0

RECURSIVE WordScoreNoMinimum(_, _)
\* The loop over the words with the words of one character counted too.
WordScoreNoMinimum(content, words) ==
    IF words = <<>> THEN 0
    ELSE CountMatches(content, Head(words)) * WORD_MATCH_SCORE
         + WordScoreNoMinimum(content, Tail(words))

RECURSIVE WordScore(_, _)
\* calculateScore, the loop over the words of the query.
WordScore(content, words) ==
    IF words = <<>> THEN 0
    ELSE (IF Len(Head(words)) < MIN_WORD_LENGTH THEN 0
          ELSE CountMatches(content, Head(words)) * WORD_MATCH_SCORE)
         + WordScore(content, Tail(words))

\* calculateScore, the title match bonus.
TitleScore(content, query) ==
    IF Includes(SliceTo(ToLower(content), TITLE_AREA), ToLower(query))
    THEN TITLE_BONUS ELSE 0

\* The score with the occurrences not counted.
calculateScoreOnce(content, query) ==
    (IF Includes(ToLower(content), ToLower(query)) THEN PHRASE_SCORE ELSE 0)
        + TitleScore(content, query)

calculateScore(content, query) ==
    PhraseScore(content, query)
        + WordScore(content, SplitWords(ToLower(query)))
        + TitleScore(content, query)

\* The characters of the contents and queries that are scored.
ScoreAlphabet == {"a", "A", "b", " "}

MaxContentLen == 4

MaxQueryLen == 2

SeqsUpTo(S, n) == UNION {[1..k -> S] : k \in 0..n}

ScoreContents == SeqsUpTo(ScoreAlphabet, MaxContentLen)

\* searchDocs has refused a blank query before any page is scored.
\* Queries of two words: both long enough to count, and one too short.
TwoWordQueries == {<<"a", "b", " ", "b", "a">>, <<"A", "b", " ", "a">>}

ScoreQueries ==
    {q \in SeqsUpTo(ScoreAlphabet, MaxQueryLen) : Trim(q) # <<>>}
        \cup TwoWordQueries

DEFAULT_LIMIT == 20

\* Queries and limits a caller passes to search_docs: empty, blank, a phrase
\* the pages have, one they have not.
QueryArgs == {<<>>, <<" ", "\n">>, <<"a", "b">>, <<"q">>}

LimitArgs == {1, DEFAULT_LIMIT}

\* The .md files of the indexed domains whose directory can be read, as
\* the two loops of searchDocs meet them.
Scanned ==
    {[domain |-> d, path |-> f] :
        d \in {x \in DOMAIN indexFile[1].sites : x \in dirs},
        f \in {g \in UNION {DOMAIN files[x] : x \in dirs} : EndsWithMd(g)}}

ScannedFiles == {e \in Scanned : e.path \in DOMAIN files[e.domain]}

\* The orders the loops can meet them in: Object.keys(index.sites) and
\* fs.readdir give the domains and the files of a domain in an order of
\* their own, one domain after the other.
ScanOrders ==
    {scan \in [1..Cardinality(ScannedFiles) -> ScannedFiles] :
        /\ \A i, j \in DOMAIN scan : i # j => scan[i] # scan[j]
        /\ \A i, j, k \in DOMAIN scan :
              (i < j /\ j < k /\ scan[i].domain = scan[k].domain)
                  => scan[j].domain = scan[i].domain}

\* file.replace(".md", "").replace(/_/g, " ")
TitleFromFile(file) ==
    LET at == IndexFrom(file, MD_EXT, 1)
        bare == IF at = 0 THEN file
                ELSE SubSeq(file, 1, at - 1) \o SubSeq(file, at + 3, Len(file))
    IN ReplaceChar(bare, "_", <<" ">>)

\* The SearchResult of a scanned file; <<>> when its content has no match.
SearchResultOf(e, query) ==
    LET content == files[e.domain][e.path]
        pages == IF e.domain \in DOMAIN meta THEN meta[e.domain].pages ELSE <<>>
        pageInfo == SelectSeq(pages, LAMBDA pg : pg.path = e.path)
    IN IF Includes(ToLower(content), ToLower(query))
       THEN <<[domain |-> e.domain, path |-> e.path,
               title |-> IF pageInfo # <<>> THEN <<pageInfo[1].title>>
                         ELSE TitleFromFile(e.path),
               score |-> calculateScore(content, query),
               sourceUrl |-> IF pageInfo # <<>> THEN <<pageInfo[1].sourceUrl>>
                             ELSE <<>>]>>
       ELSE <<>>

RECURSIVE SearchResults(_, _)
\* results, as the loops push them.
SearchResults(scan, query) ==
    IF scan = <<>> THEN <<>>
    ELSE SearchResultOf(Head(scan), query) \o SearchResults(Tail(scan), query)

RECURSIVE InsertByScoreInFront(_, _)
\* r put in front of the results of the same score.
InsertByScoreInFront(sorted, r) ==
    IF sorted = <<>> THEN <<r>>
    ELSE IF Head(sorted).score > r.score
    THEN <<Head(sorted)>> \o InsertByScoreInFront(Tail(sorted), r)
    ELSE <<r>> \o sorted

RECURSIVE InsertByScore(_, _)
\* r put into the sorted list behind every result of the same or a higher score.
InsertByScore(sorted, r) ==
    IF sorted = <<>> THEN <<r>>
    ELSE IF Head(sorted).score >= r.score
    THEN <<Head(sorted)>> \o InsertByScore(Tail(sorted), r)
    ELSE <<r>> \o sorted

RECURSIVE SortByScore(_, _)
\* results.sort((a, b) => b.score - a.score): a stable sort.
SortByScore(sorted, results) ==
    IF results = <<>> THEN sorted
    ELSE SortByScore(InsertByScore(sorted, Head(results)), Tail(results))

\* searchDocs with the query taken as it is.
QueryUnchecked(query) == FALSE

\* !query || query.trim().length === 0
QueryBlank(query) == Trim(query) = <<>>

\* What searchDocs(query, {limit}) answers in the current state when its
\* loops meet the files in the order scan.
SearchReply(query, limit, scan) ==
    IF QueryBlank(query) THEN [pc |-> "failed", error |-> "EmptyQuery"]
    ELSE IF indexFile = <<>> THEN [pc |-> "failed", error |-> "NoCorpus"]
    ELSE [pc |-> "done",
          results |-> SliceTo(SortByScore(<<>>, SearchResults(scan, query)), limit)]

SearchDocs(s, query, limit) ==
    \E scan \in IF indexFile = <<>> THEN {<<>>} ELSE ScanOrders :
        BeginRead(s, [kind |-> "search", query |-> query, limit |-> limit,
                      scan |-> scan]
                         @@ SearchReply(query, limit, scan))

\* ------------------------------------------------------------------ crawl

DEFAULT_RETRY_OPTIONS ==
    [maxRetries |-> 3, baseDelayMs |-> 1000, maxDelayMs |-> 30000]

\* The retry options a FirecrawlService is constructed with: the defaults,
\* and a smaller budget with a cap the second delay reaches.
RetryConfigs ==
    {DEFAULT_RETRY_OPTIONS,
     [maxRetries |-> 2, baseDelayMs |-> 1000, maxDelayMs |-> 1500]}

MAX_POLL_ATTEMPTS == 120

JITTER_MS == 1000

\* Math.random() * 1000, at the ends of its range.
Jitters == {0, JITTER_MS - 1}

\* HTTP status codes of a response that is not ok.
ErrorStatuses == {400, 401, 403, 429, 500}

JobId == <<"j">>

\* What one fetch of the submission can come to: the fetch rejects, the
\* provider answers with an error status, the body of an ok answer does not
\* parse, or it parses, with or without the job id.
SubmitResponses ==
    {[kind |-> "network"], [kind |-> "malformed"]}
        \cup {[kind |-> "http", status |-> c] : c \in ErrorStatuses}
        \cup {[kind |-> "ok", id |-> i] : i \in {<<>>, <<JobId>>}}

\* What one fetch of the job's status can come to; data is optional.
PollResponses ==
    {[kind |-> "network"], [kind |-> "malformed"]}
        \cup {[kind |-> "http", status |-> c] : c \in ErrorStatuses}
        \cup {[kind |-> "ok", status |-> st, data |-> d] :
                 st \in {"scraping", "completed", "failed", "cancelled"},
                 d \in {<<>>, <<PagesOf(RootC, <<1>>)>>}}

Min(a, b) == IF a <= b THEN a ELSE b

RECURSIVE Pow2(_)
\* Math.pow(2, attempt)
Pow2(n) == IF n = 0 THEN 1 ELSE 2 * Pow2(n - 1)

\* An error that is not a ScraperError: a rejected fetch, a body that is
\* not JSON.
PlainError(name) ==
    [scraper |-> FALSE, code |-> name, status |-> <<>>, jobId |-> <<>>]

\* new ScraperError(message, code, details): details holds the HTTP status
\* or the job id, each <<>> when not given.
ScraperError(code, status, jobId) ==
    [scraper |-> TRUE, code |-> code, status |-> status, jobId |-> jobId]

\* parseErrorResponse: the error code of a status.
parseErrorResponse(status) ==
    ScraperError(CASE status = 429 -> "RATE_LIMITED"
                   [] status = 400 -> "INVALID_OPTIONS"
                   [] OTHER -> "CRAWL_FAILED",
                 <<status>>, <<>>)

\* The error the submission's request function throws for a response.
SubmitError(r) ==
    CASE r.kind = "network" -> PlainError("TypeError")
      [] r.kind = "malformed" -> PlainError("SyntaxError")
      [] r.kind = "http" -> parseErrorResponse(r.status)

\* The error the status request function throws for a response.
PollError(r) ==
    CASE r.kind = "network" -> PlainError("TypeError")
      [] r.kind = "malformed" -> PlainError("SyntaxError")
      [] r.kind = "http" -> ScraperError("CRAWL_FAILED", <<>>, <<>>)

\* Every error is tried again.
NeverFinal(error) == FALSE

\* retryRequest: the errors it throws on at once.
NonRetryable(error) ==
    error.scraper /\ error.code \in {"INVALID_URL", "INVALID_OPTIONS", "RATE_LIMITED"}

\* The delay without the exponential factor.
BackoffDelayFlat(config, attempt, jitter) ==
    Min(config.baseDelayMs + jitter, config.maxDelayMs)

\* The delay with the jitter added to the capped exponential part.
BackoffDelayCappedFirst(config, attempt, jitter) ==
    Min(config.baseDelayMs * Pow2(attempt), config.maxDelayMs) + jitter

\* The delay of the backoff after the failed attempt.
BackoffDelay(config, attempt, jitter) ==
    Min(config.baseDelayMs * Pow2(attempt) + jitter, config.maxDelayMs)

\* The locals of a retryRequest that starts: no attempt made, no error seen,
\* nothing slept.  jitters holds the values of Math.random() * 1000 that
\* went into the delays of sleeps.
RetryStart ==
    [attempt |-> 0, calls |-> 0, sleeps |-> <<>>, jitters |-> <<>>,
     lastError |-> <<>>]

\* A step inside an invocation that does not touch storage.
CallStep == UNCHANGED <<fsVars, clock, overlap, staleEntries, assigned, repo>>

\* crawl(url) up to the validation of the URL: a string new URL() rejects
\* ends it before anything is sent.
CrawlStart(s, config, urlOk) ==
    /\ op[s] = Idle
    /\ op' = [op EXCEPT ![s] =
                 IF urlOk
                 THEN [kind |-> "crawl", pc |-> "call", phase |-> "submit",
                       config |-> config, attempts |-> 0, jobId |-> <<>>,
                       response |-> <<>>] @@ RetryStart
                 ELSE [kind |-> "crawl", pc |-> "failed", phase |-> "validate",
                       config |-> config, attempts |-> 0, jobId |-> <<>>,
                       response |-> <<>>,
                       error |-> ScraperError("INVALID_URL", <<>>, <<>>)]
                          @@ RetryStart]
    /\ CallStep

\* The round of a failed attempt with no sleep after the last attempt of the
\* budget: the error is thrown at once.
RetryFailureNoLastSleep(s, response, error, jitter) ==
    IF NonRetryable(error) \/ op[s].attempt + 1 >= op[s].config.maxRetries
    THEN /\ jitter = 0
         /\ op' = [op EXCEPT ![s] =
                [error |-> error, calls |-> @.calls + 1,
                 attempt |-> @.attempt + 1,
                 response |-> <<response>>, lastError |-> <<error>>]
                    @@ [@ EXCEPT !.pc = "failed"]]
    ELSE Goto(s, "backoff",
              [calls |-> op[s].calls + 1, response |-> <<response>>,
               lastError |-> <<error>>,
               jitters |-> Append(op[s].jitters, jitter),
               sleeps |-> Append(op[s].sleeps,
                              BackoffDelay(op[s].config, op[s].attempt, jitter))])

\* retryRequest, one round of its loop whose attempt fails: a non-retryable
\* error is thrown on, any other is kept and the backoff sleep begins.
RetryFailure(s, response, error, jitter) ==
    IF NonRetryable(error)
    THEN /\ jitter = 0
         /\ op' = [op EXCEPT ![s] =
                [error |-> error, calls |-> @.calls + 1,
                 response |-> <<response>>, lastError |-> <<error>>]
                    @@ [@ EXCEPT !.pc = "failed"]]
    ELSE Goto(s, "backoff",
              [calls |-> op[s].calls + 1, response |-> <<response>>,
               lastError |-> <<error>>,
               jitters |-> Append(op[s].jitters, jitter),
               sleeps |-> Append(op[s].sleeps,
                              BackoffDelay(op[s].config, op[s].attempt, jitter))])

\* The submission's request function runs once.
CrawlSubmit(s) ==
    /\ op[s].kind = "crawl" /\ op[s].pc = "call" /\ op[s].phase = "submit"
    /\ \E r \in SubmitResponses, jitter \in Jitters :
          IF r.kind # "ok" THEN RetryFailure(s, r, SubmitError(r), jitter)
          ELSE /\ jitter = 0
               /\ IF r.id = <<>>
                  THEN op' = [op EXCEPT ![s] =
                           [error |-> ScraperError("CRAWL_FAILED", <<>>, <<>>),
                            calls |-> @.calls + 1, response |-> <<r>>]
                               @@ [@ EXCEPT !.pc = "failed"]]
                  ELSE Goto(s, "pollSleep",
                            [calls |-> op[s].calls + 1, response |-> <<r>>,
                             jobId |-> r.id])
    /\ CallStep

\* The loop left after its first backoff sleep.
RetryGivesUp(s) ==
    /\ op[s].kind = "crawl" /\ op[s].pc = "backoff"
    /\ op' = [op EXCEPT ![s] =
             [error |-> @.lastError[1], attempt |-> @.attempt + 1]
                 @@ [@ EXCEPT !.pc = "failed"]]
    /\ CallStep

\* The backoff sleep ends: the loop goes round, or has used its budget and
\* retryRequest throws the last error.
RetryBackoffEnds(s) ==
    /\ op[s].kind = "crawl" /\ op[s].pc = "backoff"
    /\ IF op[s].attempt + 1 < op[s].config.maxRetries
       THEN Goto(s, "call", [attempt |-> op[s].attempt + 1])
       ELSE op' = [op EXCEPT ![s] =
                [error |-> @.lastError[1], attempt |-> @.attempt + 1]
                    @@ [@ EXCEPT !.pc = "failed"]]
    /\ CallStep

\* pollForCompletion: the sleep of one round of its loop ends and the
\* status request starts.
PollWake(s) ==
    /\ op[s].kind = "crawl" /\ op[s].pc = "pollSleep"
    /\ Goto(s, "call", [phase |-> "poll"] @@ RetryStart)
    /\ CallStep

\* The round without its attempts++.
PollAgainUncounted(o) == [o EXCEPT !.pc = "pollSleep"]

\* The loop condition letting one more round through.
PollAgainOnceMore(o) ==
    IF o.attempts + 1 <= MAX_POLL_ATTEMPTS
    THEN [attempts |-> o.attempts + 1] @@ [o EXCEPT !.pc = "pollSleep"]
    ELSE [attempts |-> o.attempts + 1,
          error |-> ScraperError("CRAWL_TIMEOUT", <<>>, o.jobId)]
             @@ [o EXCEPT !.pc = "failed"]

\* pollForCompletion after a status that is not terminal: attempts++ and
\* the loop condition.
PollAgain(o) ==
    IF o.attempts + 1 < MAX_POLL_ATTEMPTS
    THEN [attempts |-> o.attempts + 1] @@ [o EXCEPT !.pc = "pollSleep"]
    ELSE [attempts |-> o.attempts + 1,
          error |-> ScraperError("CRAWL_TIMEOUT", <<>>, o.jobId)]
             @@ [o EXCEPT !.pc = "failed"]

\* A cancelled job taken as one still running.
PollOutcomeCancelIgnored(o, r) ==
    CASE r.status = "completed" ->
             [pages |-> IF r.data # <<>> THEN r.data[1] ELSE <<>>]
                 @@ [o EXCEPT !.pc = "done"]
      [] r.status = "failed" ->
             [error |-> ScraperError("CRAWL_FAILED", <<>>, o.jobId)]
                 @@ [o EXCEPT !.pc = "failed"]
      [] OTHER -> PollAgain(o)

\* pollForCompletion on the status it got.
PollOutcome(o, r) ==
    CASE r.status = "completed" ->
             [pages |-> IF r.data # <<>> THEN r.data[1] ELSE <<>>]
                 @@ [o EXCEPT !.pc = "done"]
      [] r.status \in {"failed", "cancelled"} ->
             [error |-> ScraperError("CRAWL_FAILED", <<>>, o.jobId)]
                 @@ [o EXCEPT !.pc = "failed"]
      [] OTHER -> PollAgain(o)

\* The status request function runs once.
CrawlPoll(s) ==
    /\ op[s].kind = "crawl" /\ op[s].pc = "call" /\ op[s].phase = "poll"
    /\ \E r \in PollResponses, jitter \in Jitters :
          IF r.kind # "ok" THEN RetryFailure(s, r, PollError(r), jitter)
          ELSE /\ jitter = 0
               /\ op' = [op EXCEPT ![s] =
                      PollOutcome([calls |-> @.calls + 1, response |-> <<r>>] @@ @, r)]
    /\ CallStep

\* cancelCrawl(jobId): the DELETE request is awaited and its response is
\* not looked at; a fetch that rejects rejects cancelCrawl.
CancelCrawl(s, response) ==
    /\ op[s] = Idle
    /\ op' = [op EXCEPT ![s] =
                 IF response.kind = "network"
                 THEN [kind |-> "cancel", pc |-> "failed", response |-> response,
                       error |-> PlainError("TypeError")]
                 ELSE [kind |-> "cancel", pc |-> "done", response |-> response]]
    /\ CallStep

\* ----------------------------------------------------------------- backup

\* The batches commitFiles is given: (path, content) pairs, here a content
\* for each path of the batch.
CommitPaths == {"p", "q"}

CommitContents == {"x", "y"}

CommitBatches ==
    UNION {[P -> CommitContents] : P \in SUBSET CommitPaths \ {{}}}

\* The commit objects the repository can come to hold.
MaxCommits == 3

\* A step of commitFiles that leaves storage and the repository alone.
CommitStep == UNCHANGED <<fsVars, clock, overlap, staleEntries, assigned, repo>>

\* commitFiles(files, message) up to its first request, repos.get.  before
\* is not a local of the code: the repository as the call found it.
CommitStart(s, batch) ==
    /\ op[s] = Idle
    /\ Len(repo.commits) < MaxCommits
    /\ op' = [op EXCEPT ![s] =
                 [kind |-> "commitFiles", pc |-> "getRef", files |-> batch,
                  parentSha |-> <<>>, baseTreeSha |-> <<>>, before |-> repo]]
    /\ CommitStep

\* git.getRef of the default branch and git.getCommit of its head; with no
\* such ref (404, 409) both stay null.
CommitGetRef(s) ==
    /\ op[s].kind = "commitFiles" /\ op[s].pc = "getRef"
    /\ IF repo.head # <<>>
       THEN Goto(s, "blobs",
                 [parentSha |-> repo.head,
                  baseTreeSha |-> <<repo.commits[repo.head[1]].tree>>])
       ELSE Goto(s, "blobs", <<>>)
    /\ CommitStep

\* git.createBlob for every file, all awaited together.
CommitBlobs(s) ==
    /\ op[s].kind = "commitFiles" /\ op[s].pc = "blobs"
    /\ Goto(s, "tree", [treeItems |-> op[s].files])
    /\ CommitStep

\* The tree made of the files of the batch alone.
CommitTreeOfBatch(o) == o.treeItems

\* git.createTree({tree: treeItems, base_tree}): the base tree with the
\* items put over it, or the items alone when there is no base.
CommitTreeOf(o) ==
    IF o.baseTreeSha = <<>> THEN o.treeItems
    ELSE [x \in DOMAIN o.baseTreeSha[1] \cup DOMAIN o.treeItems |->
             IF x \in DOMAIN o.treeItems THEN o.treeItems[x]
             ELSE o.baseTreeSha[1][x]]

CommitTree(s) ==
    /\ op[s].kind = "commitFiles" /\ op[s].pc = "tree"
    /\ Goto(s, "commit", [tree |-> CommitTreeOf(op[s])])
    /\ CommitStep

\* git.createCommit({tree, parents: parentSha ? [parentSha] : []})
CommitCreate(s) ==
    /\ op[s].kind = "commitFiles" /\ op[s].pc = "commit"
    /\ repo' = [repo EXCEPT !.commits =
                   Append(@, [parents |-> op[s].parentSha, tree |-> op[s].tree])]
    /\ Goto(s, "ref", [sha |-> Len(repo.commits) + 1])
    /\ UNCHANGED <<fsVars, clock, overlap, staleEntries, assigned>>

\* git.updateRef when there was a head, git.createRef when there was none;
\* the provider rejects an update that is no fast-forward and a ref that
\* exists already.
CommitRef(s) ==
    /\ op[s].kind = "commitFiles" /\ op[s].pc = "ref"
    /\ IF (op[s].parentSha # <<>> /\ repo.head = op[s].parentSha)
            \/ (op[s].parentSha = <<>> /\ repo.head = <<>>)
       THEN /\ repo' = [repo EXCEPT !.head = <<op[s].sha>>]
            /\ Return(s, <<>>)
       ELSE /\ Throw(s, "BackupError")
            /\ UNCHANGED repo
    /\ UNCHANGED <<fsVars, clock, overlap, staleEntries, assigned>>

\* A request of commitFiles is rejected (other than the missing ref):
\* commitFiles has no handler for it and throws it on.
CommitFails(s) ==
    /\ op[s].kind = "commitFiles"
    /\ op[s].pc \in {"getRef", "blobs", "tree", "commit", "ref"}
    /\ Throw(s, "BackupError")
    /\ CommitStep

\* ---------------------------------------------------------- specification

\* A mutating invocation starts in slot s.
StartOp(s) ==
    \/ \E url \in ScrapeUrls, batch \in Batches : ScrapeStart(s, url, batch, <<>>)
    \/ \E url \in ScrapeUrls : ScrapeCrawlFails(s, url)
    \/ \E domain \in DomainArgs : DeleteStart(s, domain)
    \/ \E domain \in DomainArgs : DeleteNotFound(s, domain)
    \/ DeleteAllStart(s)

\* A read-only invocation runs in slot s.
ReadOp(s) ==
    \/ \E domain \in DomainArgs, docPath \in {<<>>} \cup {<<p>> : p \in PathArgs} :
          GetDoc(s, domain, docPath)
    \/ ListDocs(s)
    \/ GetStats(s)
    \/ \E query \in QueryArgs, limit \in LimitArgs : SearchDocs(s, query, limit)

\* A running invocation resumes after an await.
StepOp(s) ==
    \/ ScrapeMkdir(s)
    \/ ScrapeReadVersion(s)
    \/ ScrapeWritePage(s)
    \/ ScrapeWriteMeta(s)
    \/ ScrapeReadIndex(s)
    \/ ScrapeWriteIndex(s)
    \/ ScrapeCommit(s)
    \/ DeleteCount(s)
    \/ DeleteRm(s)
    \/ DeleteReadIndex(s)
    \/ DeleteWriteIndex(s)
    \/ DeleteAllCount(s)
    \/ DeleteAllRm(s)
    \/ DeleteAllReset(s)

\* A write rejected by the file system.
FaultOp(s) ==
    \/ ScrapeAbort(s)
    \/ DeleteIndexFails(s)

\* The caller has the reply (the result or the error) and the slot is free.
Deliver(s) ==
    /\ op[s].pc \in {"done", "failed"}
    /\ op' = [op EXCEPT ![s] = Idle]
    /\ UNCHANGED <<fsVars, clock, overlap, staleEntries, assigned, repo>>

\* The tools whose handler calls the tool function of an invocation:
\* scrape_spa builds the render actions and calls scrapeDocs as scrape_docs
\* does.
ToolsOf(kind) ==
    CASE kind = "scrape" -> {"scrape_docs", "scrape_spa"}
      [] kind = "list" -> {"list_docs"}
      [] kind = "get" -> {"get_doc"}
      [] kind = "search" -> {"search_docs"}
      [] kind = "stats" -> {"docs_stats"}
      [] kind = "delete" -> {"delete_docs"}
      [] kind = "deleteAll" -> {"delete_all_docs"}

\* The text a handler's catch puts in front of error.message.
ErrorPrefix(tool) ==
    CASE tool = "scrape_docs" -> "Error scraping docs: "
      [] tool = "scrape_spa" -> "Error scraping SPA: "
      [] tool = "list_docs" -> "Error listing docs: "
      [] tool = "get_doc" -> "Error getting doc: "
      [] tool = "search_docs" -> "Error searching docs: "
      [] tool = "docs_stats" -> "Error getting stats: "
      [] tool = "delete_docs" -> "Error deleting docs: "
      [] tool = "delete_all_docs" -> "Error deleting all docs: "

\* A handler without its try and catch: what the tool function throws goes
\* on to the caller.
HandlerReplyUncaught(o, tool) ==
    IF o.pc = "failed"
    THEN [kind |-> o.kind, tool |-> tool, pc |-> "escaped", error |-> o.error]
    ELSE [kind |-> o.kind, tool |-> tool, pc |-> "replied", isError |-> FALSE,
          text |-> <<"ok">>]

\* What a handler returns when its tool function has returned or thrown:
\* {content} on success, {content, isError: true} with the prefixed message
\* from the catch.
HandlerReply(o, tool) ==
    IF o.pc = "failed"
    THEN [kind |-> o.kind, tool |-> tool, pc |-> "replied", isError |-> TRUE,
          text |-> <<ErrorPrefix(tool), o.error>>]
    ELSE [kind |-> o.kind, tool |-> tool, pc |-> "replied", isError |-> FALSE,
          text |-> <<"ok">>]

\* The handler's own step: from the end of the tool function to its return.
Reply(s) ==
    /\ op[s].pc \in {"done", "failed"}
    /\ \E tool \in ToolsOf(op[s].kind) :
          op' = [op EXCEPT ![s] = HandlerReply(op[s], tool)]
    /\ UNCHANGED <<fsVars, clock, overlap, staleEntries, assigned, repo>>

\* The caller has what the handler gave and the slot is free.
Replied(s) ==
    /\ op[s].pc \in {"replied", "escaped"}
    /\ op' = [op EXCEPT ![s] = Idle]
    /\ UNCHANGED <<fsVars, clock, overlap, staleEntries, assigned, repo>>

\* delete_docs without confirm = true, delete_all_docs without "DELETE ALL":
\* the handler returns the instruction and calls nothing.
Unconfirmed(s, kind) ==
    BeginRead(s, [kind |-> kind, pc |-> "done", unconfirmed |-> TRUE])

\* One invocation at a time: the next starts when the last has replied.
Quiet == \A s \in Slots : op[s] = Idle

Next ==
    \/ \E s \in {1} : Quiet /\ clock < MaxOps /\ StartOp(s)
    \/ \E s \in {1} : Quiet /\ ReadOp(s)
    \/ \E s \in {1} : StepOp(s)
    \/ \E s \in {1} : FaultOp(s)
    \/ \E s \in {1} : Deliver(s)

Spec == Init /\ [][Next]_vars

\* One invocation at a time on a file system that rejects no write, the
\* scrapes with tags or without.
NextNoFault ==
    \/ \E s \in {1} : Quiet /\ clock < MaxOps /\ StartOp(s)
    \/ \E s \in {1}, url \in ScrapeUrls, batch \in Batches :
          Quiet /\ clock < MaxOps /\ ScrapeStart(s, url, batch, Tagged)
    \/ \E s \in {1} : Quiet /\ ReadOp(s)
    \/ \E s \in {1} : StepOp(s)
    \/ \E s \in {1} : Deliver(s)

SpecNoFault == Init /\ [][NextNoFault]_vars

MaxDocOps == 2

\* Paths asked for after such scrapes: the names the pages are stored under,
\* with the extension and without it, and a name nothing has.
DocPathArgs ==
    LET names == { <<"a">>, <<"a", "_", "1">>, <<"a">> \o MD_EXT,
                   <<"a">> \o MD_EXT \o <<"_", "1">>, <<"q">> }
    IN names \cup {n \o MD_EXT : n \in names}

\* Scrapes of one root and get_doc calls for single documents.
NextDocs ==
    \/ \E s \in {1}, batch \in DocBatches :
          Quiet /\ clock < MaxDocOps /\ ScrapeStart(s, RootC, batch, <<>>)
    \/ \E s \in {1}, docPath \in DocPathArgs :
          Quiet /\ GetDoc(s, urlToDomain(RootC), <<docPath>>)
    \/ \E s \in {1} : ScrapeMkdir(s)
    \/ \E s \in {1} : ScrapeReadVersion(s)
    \/ \E s \in {1} : ScrapeWritePage(s)
    \/ \E s \in {1} : ScrapeWriteMeta(s)
    \/ \E s \in {1} : ScrapeReadIndex(s)
    \/ \E s \in {1} : ScrapeWriteIndex(s)
    \/ \E s \in {1} : ScrapeCommit(s)
    \/ \E s \in {1} : Deliver(s)

SpecDocs == Init /\ [][NextDocs]_vars

\* The longest batch of the naming runs: three pages can resolve to one name.
MaxNameBatch == 3

NameBatches ==
    UNION {[1..n -> 1..Len(FullPool(RootC))] : n \in 0..MaxNameBatch}

MaxNameOps == 1

\* The page URLs a crawl of https://c/ can report: the root and two paths,
\* each with and without a query string and a fragment.
NamePaths == {<<"/">>, <<"/", "a">>, <<"/", "a", "/", "b">>}

NameSearches == {<<>>, <<"?", "x", "=", "1">>,
                 <<"?", "x", "=", "&", "y", "=", "2">>}

NameHashes == {<<>>, <<"#", "h">>}

NameUrls ==
    {Url(HostC, p, q, h) : p \in NamePaths, q \in NameSearches, h \in NameHashes}

\* One call of urlToFilename.
Resolve(s, sourceUrl) ==
    /\ op[s] = Idle
    /\ op' = [op EXCEPT ![s] =
             [kind |-> "resolve", pc |-> "done", sourceUrl |-> sourceUrl,
              filename |-> urlToFilename(sourceUrl)]]
    /\ UNCHANGED <<fsVars, clock, overlap, staleEntries, assigned, repo>>

\* The naming of pages: urlToFilename on every URL of the bounds, and one
\* scrape of a batch of up to MaxNameBatch pages.
NextNames ==
    \/ \E s \in {1}, sourceUrl \in NameUrls : Quiet /\ Resolve(s, sourceUrl)
    \/ \E s \in {1}, batch \in NameBatches :
          Quiet /\ clock < MaxNameOps /\ ScrapeStart(s, RootC, batch, <<>>)
    \/ \E s \in {1} : ScrapeMkdir(s)
    \/ \E s \in {1} : ScrapeReadVersion(s)
    \/ \E s \in {1} : ScrapeWritePage(s)
    \/ \E s \in {1} : ScrapeWriteMeta(s)
    \/ \E s \in {1} : ScrapeReadIndex(s)
    \/ \E s \in {1} : ScrapeWriteIndex(s)
    \/ \E s \in {1} : ScrapeCommit(s)
    \/ \E s \in {1} : Deliver(s)

SpecNames == Init /\ [][NextNames]_vars

\* One call of countWords.
CountWords(s, text) ==
    /\ op[s] = Idle
    /\ op' = [op EXCEPT ![s] =
             [kind |-> "words", pc |-> "done", text |-> text,
              wordCount |-> countWords(text)]]
    /\ UNCHANGED <<fsVars, clock, overlap, staleEntries, assigned, repo>>

\* The word count alone, on every text of the bounds.
NextWords ==
    \/ \E s \in {1}, text \in Texts : CountWords(s, text)
    \/ \E s \in {1} : Deliver(s)

SpecWords == Init /\ [][NextWords]_vars

MaxHandlerOps == 2

\* The handlers with their replies, one invocation at a time.
NextHandlers ==
    \/ \E s \in {1} : Quiet /\ clock < MaxHandlerOps /\ StartOp(s)
    \/ \E s \in {1} : Quiet /\ ReadOp(s)
    \/ \E s \in {1}, kind \in {"delete", "deleteAll"} : Quiet /\ Unconfirmed(s, kind)
    \/ \E s \in {1} : StepOp(s)
    \/ \E s \in {1} : FaultOp(s)
    \/ \E s \in {1} : Reply(s)
    \/ \E s \in {1} : Replied(s)

SpecHandlers == Init /\ [][NextHandlers]_vars

\* One call of calculateScore, with the parts of its sum.
Score(s, content, query) ==
    /\ op[s] = Idle
    /\ op' = [op EXCEPT ![s] =
             [kind |-> "score", pc |-> "done",
              content |-> content, query |-> query,
              phrase |-> PhraseScore(content, query),
              words |-> WordScore(content, SplitWords(ToLower(query))),
              title |-> TitleScore(content, query),
              score |-> calculateScore(content, query)]]
    /\ UNCHANGED <<fsVars, clock, overlap, staleEntries, assigned, repo>>

\* The crawl client on its own: one crawl or cancel request at a time,
\* against a provider that answers each fetch as it likes.
NextCrawl ==
    \/ \E s \in {1}, config \in RetryConfigs, urlOk \in BOOLEAN :
          CrawlStart(s, config, urlOk)
    \/ \E s \in {1} : CrawlSubmit(s)
    \/ \E s \in {1} : RetryBackoffEnds(s)
    \/ \E s \in {1} : PollWake(s)
    \/ \E s \in {1} : CrawlPoll(s)
    \/ \E s \in {1}, response \in SubmitResponses : CancelCrawl(s, response)
    \/ \E s \in {1} : Deliver(s)

SpecCrawl == Init /\ [][NextCrawl]_vars

\* Every provider call settles and every timer fires: a crawl that can take
\* its next step takes it.
CrawlFairness ==
    /\ WF_vars(\E s \in {1} : CrawlSubmit(s))
    /\ WF_vars(\E s \in {1} : RetryBackoffEnds(s))
    /\ WF_vars(\E s \in {1} : PollWake(s))
    /\ WF_vars(\E s \in {1} : CrawlPoll(s))

SpecCrawlFair == SpecCrawl /\ CrawlFairness

\* commitFiles on its own: one call at a time against one repository.
NextCommit ==
    \/ \E s \in {1}, batch \in CommitBatches : Quiet /\ CommitStart(s, batch)
    \/ \E s \in {1} : CommitGetRef(s)
    \/ \E s \in {1} : CommitBlobs(s)
    \/ \E s \in {1} : CommitTree(s)
    \/ \E s \in {1} : CommitCreate(s)
    \/ \E s \in {1} : CommitRef(s)
    \/ \E s \in {1} : CommitFails(s)
    \/ \E s \in {1} : Deliver(s)

SpecCommit == Init /\ [][NextCommit]_vars

\* The relevance score alone, on every content and query of the bounds.
NextScore ==
    \/ \E s \in {1}, content \in ScoreContents, query \in ScoreQueries :
          Score(s, content, query)
    \/ \E s \in {1} : Deliver(s)

SpecScore == Init /\ [][NextScore]_vars

\* Invocations overlap: a new one takes the first free slot, also while the
\* other slot's invocation is suspended at an await.  No write is rejected
\* here except by a directory that another invocation removed, and reads,
\* which are single steps, are left to the states they would read.
FirstFree(s) == op[s] = Idle /\ \A o \in Slots : o < s => op[o] # Idle

NextConc ==
    \/ \E s \in Slots : FirstFree(s) /\ clock < MaxConcOps /\ StartOp(s)
    \/ \E s \in Slots : StepOp(s)
    \/ \E s \in Slots : Deliver(s)

SpecConc == Init /\ [][NextConc]_vars

\* The mutating invocations of the readers' runs.
MaxReaderOps == 2

\* Readers beside a writer: one mutating invocation at a time in slot 1,
\* and in slot 2 listDocs and getStats, each one read of index.json, at any
\* moment, also while the invocation of slot 1 is suspended at an await.
NextReaders ==
    \/ \E s \in {1} : clock < MaxReaderOps /\ StartOp(s)
    \/ \E s \in {1} : StepOp(s)
    \/ \E s \in {2} : ListDocs(s)
    \/ \E s \in {2} : GetStats(s)
    \/ \E s \in Slots : Deliver(s)

SpecReaders == Init /\ [][NextReaders]_vars

\* ------------------------------------------------------------- properties

Finished(s) == op[s].pc \in {"done", "failed"}

\* The scrape in slot s got as far as its persistence phase and ended.
ScrapePersisted(s) ==
    /\ op[s].kind = "scrape"
    /\ \/ op[s].pc = "done"
       \/ op[s].pc = "failed" /\ op[s].error = "BackupError"

Indexed(d) == indexFile # <<>> /\ d \in DOMAIN indexFile[1].sites

\* The domain's metadata is stored and every page it lists is a stored file.
ContentStored(d) ==
    /\ d \in DOMAIN meta
    /\ d \in dirs
    /\ \A k \in 1..Len(meta[d].pages) :
          meta[d].pages[k].path \in DOMAIN files[d]

\* C1: with one invocation at a time, every write of a domain's metadata
\* stores version 1 when none was stored and the stored version + 1
\* otherwise, and when a scrape returns the index has the domain's entry,
\* carrying that version.
C1_VersionIncrements ==
    [][ /\ \A d \in DOMAIN meta' :
              (d \notin DOMAIN meta \/ meta'[d] # meta[d]) =>
                  meta'[d].version =
                      (IF d \in DOMAIN meta THEN meta[d].version ELSE 0) + 1
        /\ \A s \in Slots :
              (op'[s].kind = "scrape" /\ op'[s].pc = "done") =>
                  /\ indexFile' # <<>>
                  /\ op'[s].domain \in DOMAIN indexFile'[1].sites
                  /\ op'[s].domain \in DOMAIN meta'
                  /\ indexFile'[1].sites[op'[s].domain].version
                         = meta'[op'[s].domain].version
      ]_vars

\* The third scrape in a row of one domain has returned.
C1_Witness ==
    \E s \in Slots :
        /\ op[s].kind = "scrape" /\ op[s].pc = "done"
        /\ meta[op[s].domain].version = 3
        /\ indexFile[1].sites[op[s].domain].version = 3

OwnEntry(o) == Indexed(o.domain) /\ indexFile[1].sites[o.domain].scrapedAt = o.t

OwnMeta(o) == o.domain \in DOMAIN meta /\ meta[o.domain].scrapedAt = o.t

OwnPages(o) ==
    /\ o.domain \in dirs
    /\ Len(meta[o.domain].pages) = Len(o.batch)
    /\ \A k \in 1..Len(o.batch) :
          /\ meta[o.domain].pages[k].path \in DOMAIN files[o.domain]
          /\ files[o.domain][meta[o.domain].pages[k].path]
                 = PagesOf(o.url, o.batch)[k].markdown

\* C3: at every step of a scrape, and after it ended or aborted, its index
\* entry is there only with its metadata, of the same version, its metadata
\* only with all its page files, and it returns only with its index entry.
C3_WriteOrder ==
    \A s \in Slots :
        op[s].kind = "scrape" =>
            /\ OwnEntry(op[s]) =>
                  /\ OwnMeta(op[s])
                  /\ indexFile[1].sites[op[s].domain].version
                         = meta[op[s].domain].version
            /\ OwnMeta(op[s]) => OwnPages(op[s])
            /\ op[s].pc = "done" => OwnEntry(op[s])

\* A scrape of two pages aborted after its metadata and before its index
\* entry.
C3_Witness ==
    \E s \in Slots :
        /\ op[s].kind = "scrape" /\ op[s].pc = "failed"
        /\ op[s].error = "StorageError"
        /\ Len(op[s].batch) = 2
        /\ OwnMeta(op[s]) /\ ~OwnEntry(op[s])

\* The entry the scrape that ended in slot s wrote for its domain.
EntryOf(s) ==
    [scrapedAt |-> op[s].t, pageCount |-> Len(op[s].batch),
     sourceUrl |-> op[s].url, tags |-> op[s].tags,
     version |-> op[s].existingVersion + 1,
     totalWordCount |-> op[s].totalWordCount]

\* C4: when two scrapes of different domains overlapped and both returned,
\* the index holds the entry of each, as that scrape wrote it.
C4_BothEntriesKept ==
    ( /\ overlap
      /\ \A s \in Slots : op[s].kind = "scrape" /\ op[s].pc = "done"
      /\ op[1].domain # op[2].domain )
    => \A s \in Slots :
          /\ Indexed(op[s].domain)
          /\ indexFile[1].sites[op[s].domain] = EntryOf(s)

\* C5: when a scrape and a deletion of the same domain overlapped and both
\* have ended, the index lists the domain only with its metadata and pages
\* stored.
C5_NoEntryWithoutContent ==
    \A s \in Slots, o \in Slots :
        ( /\ overlap
          /\ op[s].kind = "scrape" /\ Finished(s)
          /\ op[o].kind = "delete" /\ Finished(o)
          /\ op[s].domain = op[o].domain )
        => (Indexed(op[s].domain) => ContentStored(op[s].domain))

\* The title and the source URL scrapeDocs files a page under.
TitleOf(page) == IF page.title # <<>> THEN page.title[1] ELSE "Untitled"

SourceOf(page, url) == IF page.sourceURL # <<>> THEN page.sourceURL[1] ELSE url

\* C6: when a scrape has ended after its persistence phase, getDoc without a
\* path answers one entry per page of the batch, in batch order, with the
\* page's title and source URL and the path the page's body is stored under.
C6_ListIsLatestBatch ==
    \A s \in Slots :
        ScrapePersisted(s) =>
            LET reply == GetDocReply(op[s].domain, <<>>)
                pages == PagesOf(op[s].url, op[s].batch)
            IN /\ reply.pc = "done"
               /\ "list" \in DOMAIN reply
               /\ Len(reply.list) = Len(pages)
               /\ \A k \in 1..Len(pages) :
                     /\ reply.list[k].content =
                            DocSummary([title |-> TitleOf(pages[k]),
                                        sourceUrl |-> SourceOf(pages[k], op[s].url)])
                     /\ reply.list[k].path \in DOMAIN files[op[s].domain]
                     /\ files[op[s].domain][reply.list[k].path]
                            = pages[k].markdown

\* A re-scrape has returned and the directory still holds a file of the
\* version before that the new batch does not have.
C6_Witness ==
    \E s \in Slots :
        /\ op[s].kind = "scrape" /\ op[s].pc = "done"
        /\ meta[op[s].domain].version = 2
        /\ Len(op[s].batch) = 1
        /\ \E f \in DOMAIN files[op[s].domain] :
              \A k \in 1..Len(meta[op[s].domain].pages) :
                  meta[op[s].domain].pages[k].path # f

\* C7: when a scrape has ended after its persistence phase, the file names
\* of its batch are pairwise distinct and getDoc with the path of a page
\* answers that page's body.
C7_DistinctAndRecoverable ==
    \A s \in Slots :
        ScrapePersisted(s) =>
            LET listed == meta[op[s].domain].pages
                pages == PagesOf(op[s].url, op[s].batch)
            IN /\ Len(listed) = Len(pages)
               /\ \A j, k \in 1..Len(listed) :
                     j # k => listed[j].path # listed[k].path
               /\ \A k \in 1..Len(listed) :
                     LET reply == GetDocReply(op[s].domain, <<listed[k].path>>)
                     IN /\ reply.pc = "done"
                        /\ reply.doc.content = pages[k].markdown

\* A scrape of /a and /a/, which resolve to the same name, has returned.
C7_Witness ==
    \E s \in Slots :
        /\ op[s].kind = "scrape" /\ op[s].pc = "done"
        /\ op[s].batch = <<1, 2>>
        /\ urlToFilename(PagesOf(op[s].url, op[s].batch)[1].sourceURL[1])
               = urlToFilename(PagesOf(op[s].url, op[s].batch)[2].sourceURL[1])

\* C8: a deletion of a domain with stored metadata returns the page count
\* that metadata records, and once it has rewritten the index, listDocs no
\* longer has the domain.
C8_DeletedCountIsPageCount ==
    \A s \in Slots :
        (op[s].kind = "delete" /\ op[s].pc = "done") =>
            /\ op[s].metaBefore # <<>> =>
                  op[s].pagesDeleted = op[s].metaBefore[1].pageCount
            /\ "indexFailed" \notin DOMAIN op[s] =>
                  \A site \in SiteInfos : site.domain # op[s].domain

\* C9: getDoc and deleteDocs called for a domain without a directory end
\* with DomainNotFound, and the step changes nothing on storage.
C9_NotFoundChangesNothing ==
    [][ \A s \in Slots :
          ( /\ op[s] = Idle
            /\ op'[s].kind \in {"get", "delete"}
            /\ op'[s].domain \notin dirs )
          => /\ op'[s].pc = "failed"
             /\ op'[s].error = "DomainNotFound"
             /\ UNCHANGED fsVars
      ]_vars

\* One of the two was refused while another domain is stored and indexed.
C9_Witness ==
    \E s \in Slots :
        /\ op[s].kind \in {"get", "delete"}
        /\ op[s].pc = "failed" /\ op[s].error = "DomainNotFound"
        /\ dirs # {}
        /\ indexFile # <<>>

RECURSIVE Total(_, _)
Total(f, ds) ==
    IF ds = {} THEN 0
    ELSE LET d == CHOOSE x \in ds : \A y \in ds : Len(x) <= Len(y)
         IN f[d] + Total(f, ds \ {d})

ListedDomains == IF indexFile = <<>> THEN {} ELSE DOMAIN indexFile[1].sites

\* C11: listDocs and getStats never fail; with no index they answer the
\* empty list and all-zero statistics, and otherwise exactly the domains of
\* index.sites, the totals being the sums of the entries' pageCount and
\* totalWordCount.
C11_ReadsNeverFail ==
    \A s \in Slots :
        /\ op[s].kind = "list" =>
              /\ op[s].pc = "done"
              /\ {site.domain : site \in op[s].sites} = ListedDomains
              /\ Cardinality(op[s].sites) = Cardinality(ListedDomains)
        /\ op[s].kind = "stats" =>
              /\ op[s].pc = "done"
              /\ op[s].totalDomains = Cardinality(ListedDomains)
              /\ {e.domain : e \in op[s].domains} = ListedDomains
              /\ op[s].totalPages =
                     Total([d \in ListedDomains |->
                               indexFile[1].sites[d].pageCount], ListedDomains)
              /\ op[s].totalWordCount =
                     Total([d \in ListedDomains |->
                               indexFile[1].sites[d].totalWordCount], ListedDomains)
              /\ indexFile = <<>> => op[s].totalPages = 0 /\ op[s].domains = {}

\* getStats has answered for two domains of three pages and five words.
C11_Witness ==
    \E s \in Slots :
        /\ op[s].kind = "stats" /\ op[s].pc = "done"
        /\ op[s].totalDomains = 2
        /\ op[s].totalPages = 3
        /\ op[s].totalWordCount = 5

\* C12: searchDocs called with an empty or whitespace-only query fails with
\* EmptyQuery, and called with another query while there is no index fails
\* with NoCorpus; neither reply has a result list.
C12_SearchRefusals ==
    \A s \in Slots :
        op[s].kind = "search" =>
            LET blank == \A i \in 1..Len(op[s].query) : IsSpace(op[s].query[i])
            IN /\ blank =>
                     /\ op[s].pc = "failed" /\ op[s].error = "EmptyQuery"
                     /\ "results" \notin DOMAIN op[s]
               /\ (~blank /\ indexFile = <<>>) =>
                     /\ op[s].pc = "failed" /\ op[s].error = "NoCorpus"
                     /\ "results" \notin DOMAIN op[s]

\* A whitespace-only query has been refused although pages are indexed.
C12_Witness ==
    \E s \in Slots :
        /\ op[s].kind = "search"
        /\ op[s].query # <<>>
        /\ op[s].pc = "failed" /\ op[s].error = "EmptyQuery"
        /\ indexFile # <<>> /\ DOMAIN indexFile[1].sites # {}

\* The crawl in slot s has made a provider call, and r is the response of
\* its latest one.
LatestResponse(s, r) ==
    /\ op[s].kind = "crawl" /\ op[s].calls > 0
    /\ op[s].response = <<r>>

NeverRetried == {"INVALID_URL", "INVALID_OPTIONS", "RATE_LIMITED"}

\* C13: every backoff sleep after the failed attempt with index a lasts at
\* least min(baseDelay * 2^a, maxDelay), and a request that succeeds at
\* attempt k + 1 has slept exactly k times and hands its result on: the
\* submission's job id is the one the crawl polls for.
C13_RetryThenSuccess ==
    \A s \in Slots :
        op[s].kind = "crawl" =>
            /\ \A a \in 0..(Len(op[s].sleeps) - 1) :
                  op[s].sleeps[a + 1] >=
                      Min(op[s].config.baseDelayMs * (2 ^ a),
                          op[s].config.maxDelayMs)
            /\ \A r \in SubmitResponses \cup PollResponses :
                  (LatestResponse(s, r) /\ r.kind = "ok") =>
                      /\ Len(op[s].sleeps) = op[s].calls - 1
                      /\ op[s].calls <= op[s].config.maxRetries
                      /\ (op[s].phase = "submit" /\ r.id # <<>>) =>
                            op[s].pc = "pollSleep" /\ op[s].jobId = r.id

\* The submission has succeeded at its third attempt, after two sleeps.
C13_Witness ==
    \E s \in Slots :
        /\ op[s].kind = "crawl" /\ op[s].phase = "submit"
        /\ op[s].pc = "pollSleep"
        /\ op[s].calls = 3 /\ Len(op[s].sleeps) = 2

\* C14: an invalid URL ends the crawl before any provider call, and an
\* INVALID_OPTIONS or RATE_LIMITED error is thrown on by the attempt that
\* met it: no sleep follows that attempt and no attempt is made after it.
C14_NeverRetried ==
    \A s \in Slots :
        op[s].kind = "crawl" =>
            /\ (op[s].pc = "failed" /\ op[s].error.code = "INVALID_URL") =>
                  op[s].calls = 0 /\ op[s].response = <<>> /\ op[s].sleeps = <<>>
            /\ \A r \in SubmitResponses \cup PollResponses :
                  ( /\ LatestResponse(s, r)
                    /\ r.kind # "ok"
                    /\ op[s].lastError[1].scraper
                    /\ op[s].lastError[1].code \in NeverRetried )
                  => /\ op[s].pc = "failed"
                     /\ op[s].error = op[s].lastError[1]
                     /\ Len(op[s].sleeps) = op[s].calls - 1

\* The first attempt of the submission was rate limited and the crawl has
\* failed with that error without a sleep.
C14_Witness ==
    \E s \in Slots :
        /\ op[s].kind = "crawl" /\ op[s].pc = "failed"
        /\ op[s].error.code = "RATE_LIMITED"
        /\ op[s].calls = 1 /\ op[s].sleeps = <<>>

\* C15: an attempt that fails with any other error is followed by a backoff
\* and, while the budget lasts, by another attempt; when the request has
\* failed, it has made exactly maxRetries attempts and throws the error of
\* the last one.
C15_RetriedToBudget ==
    \A s \in Slots :
        \A r \in SubmitResponses \cup PollResponses :
            ( /\ LatestResponse(s, r)
              /\ r.kind # "ok"
              /\ ~(op[s].lastError[1].scraper
                      /\ op[s].lastError[1].code \in NeverRetried) )
            => /\ op[s].pc \in {"backoff", "call", "failed"}
               /\ op[s].pc = "call" =>
                     /\ op[s].calls < op[s].config.maxRetries
                     /\ op[s].attempt = op[s].calls
               /\ op[s].pc = "failed" =>
                     /\ op[s].calls = op[s].config.maxRetries
                     /\ op[s].error = op[s].lastError[1]
                     /\ op[s].error =
                           IF op[s].phase = "submit" THEN SubmitError(r)
                           ELSE PollError(r)

\* A status request has failed three times, the last time on a body that
\* does not parse, and the crawl has failed with that error.
C15_Witness ==
    \E s \in Slots :
        /\ op[s].kind = "crawl" /\ op[s].pc = "failed"
        /\ op[s].phase = "poll"
        /\ op[s].calls = 3
        /\ op[s].error.code = "SyntaxError"

\* C16: the crawl never polls more than 120 times; it fails with
\* CRAWL_TIMEOUT exactly when the 120th status that is not terminal has
\* arrived, and with no other error then.
C16_TimeoutAfterMaxPolls ==
    \A s \in Slots :
        op[s].kind = "crawl" =>
            /\ op[s].attempts <= 120
            /\ op[s].attempts = 120 <=>
                  (op[s].pc = "failed" /\ op[s].error.code = "CRAWL_TIMEOUT")
            /\ (op[s].pc = "failed" /\ op[s].error.code = "CRAWL_TIMEOUT") =>
                  \E r \in PollResponses :
                      /\ LatestResponse(s, r) /\ r.kind = "ok"
                      /\ r.status \notin {"completed", "failed", "cancelled"}

\* The crawl has timed out on its 120th poll, whose status request
\* succeeded at the first attempt.
C16_Witness ==
    \E s \in Slots :
        /\ op[s].kind = "crawl" /\ op[s].pc = "failed"
        /\ op[s].error.code = "CRAWL_TIMEOUT"
        /\ op[s].attempts = 120 /\ op[s].calls = 1

\* C17: a status of completed ends the crawl with that response's pages, a
\* status of failed or cancelled ends it with CRAWL_FAILED carrying the job
\* id, and any other status sends it to the next poll (or to the timeout).
C17_PollOutcomes ==
    \A s \in Slots :
        /\ \A r \in PollResponses :
              (LatestResponse(s, r) /\ op[s].phase = "poll" /\ r.kind = "ok") =>
                  /\ r.status = "completed" =>
                        /\ op[s].pc = "done"
                        /\ op[s].pages = IF r.data # <<>> THEN r.data[1] ELSE <<>>
                  /\ r.status \in {"failed", "cancelled"} =>
                        /\ op[s].pc = "failed"
                        /\ op[s].error.code = "CRAWL_FAILED"
                        /\ op[s].error.jobId = <<JobId>>
                  /\ r.status \notin {"completed", "failed", "cancelled"} =>
                        \/ op[s].pc = "pollSleep"
                        \/ op[s].pc = "failed" /\ op[s].error.code = "CRAWL_TIMEOUT"
        /\ (op[s].kind = "crawl" /\ op[s].pc = "done") =>
              \E r \in PollResponses :
                  LatestResponse(s, r) /\ r.kind = "ok" /\ r.status = "completed"

\* The third poll reported cancelled and the crawl has failed.
C17_Witness ==
    \E s \in Slots, r \in PollResponses :
        /\ LatestResponse(s, r) /\ r.kind = "ok" /\ r.status = "cancelled"
        /\ op[s].attempts = 2
        /\ op[s].pc = "failed"

\* C18: a response that is not ok, to the submission or to a status poll,
\* gives the error of its status code: 429 RATE_LIMITED, which ends the
\* request, 400 INVALID_OPTIONS, any other code CRAWL_FAILED.
C18_ClassifiedByStatus ==
    \A s \in Slots :
        \A r \in SubmitResponses \cup PollResponses :
            (LatestResponse(s, r) /\ r.kind = "http") =>
                /\ op[s].lastError[1].code =
                       CASE r.status = 429 -> "RATE_LIMITED"
                         [] r.status = 400 -> "INVALID_OPTIONS"
                         [] OTHER -> "CRAWL_FAILED"
                /\ r.status = 429 => op[s].pc = "failed"

\* C19: cancelCrawl never ends with an error.
C19_CancelNeverFails ==
    \A s \in Slots : op[s].kind = "cancel" => op[s].pc # "failed"

\* The number of times the phrase occurs in the content scored in slot s,
\* letter case aside, counted from the left without overlap.
Occurrences(s) ==
    LET content == ToLower(op[s].content)
        query == ToLower(op[s].query)
        n == Len(query)
        at == {i \in 1..(Len(content) - n + 1) :
                  SubSeq(content, i, i + n - 1) = query}
        apart == {S \in SUBSET at :
                     \A i, j \in S : i < j => j - i >= n}
    IN CHOOSE k \in 0..Len(content) :
           /\ \E S \in apart : Cardinality(S) = k
           /\ \A S \in apart : Cardinality(S) <= k

\* C20 (as amended): a content in which the query phrase occurs k >= 1
\* times has a phrase part of 100 + 10 * k: every occurrence adds 10, the
\* first one too.
C20_PhraseScorePerOccurrence ==
    \A s \in Slots :
        (op[s].kind = "score" /\ Occurrences(s) >= 1) =>
            op[s].phrase = 100 + 10 * Occurrences(s)

\* A content with two occurrences of a two-letter phrase in another letter
\* case has been scored.
C20_Witness ==
    \E s \in Slots :
        /\ op[s].kind = "score"
        /\ Len(op[s].query) = 2
        /\ op[s].query # ToLower(op[s].query)
        /\ Occurrences(s) = 2
        /\ op[s].phrase = 120

\* C20 (as stated): a content in which the query phrase occurs k >= 1 times
\* has a phrase part of 100 + 10 * (k - 1).
C20_PhraseScoreAdditional ==
    \A s \in Slots :
        (op[s].kind = "score" /\ Occurrences(s) >= 1) =>
            op[s].phrase = 100 + 10 * (Occurrences(s) - 1)

\* The number of times the phrase occurs in the content, letter case
\* aside: the most match positions that do not overlap.
OccurrencesIn(content, query) ==
    LET c == ToLower(content)
        q == ToLower(query)
        n == Len(q)
        at == {i \in 1..(Len(c) - n + 1) : SubSeq(c, i, i + n - 1) = q}
        apart == {S \in SUBSET at : \A i, j \in S : i < j => j - i >= n}
    IN CHOOSE k \in 0..Len(c) :
           /\ \E S \in apart : Cardinality(S) = k
           /\ \A S \in apart : Cardinality(S) <= k

\* The search in slot s has returned its results.
Searched(s) == op[s].kind = "search" /\ op[s].pc = "done"

\* The stored content of a scanned file or of a result.
Stored(e) == files[e.domain][e.path]

\* The place of a result's file in the order the search met the files.
ScanPlace(s, r) ==
    CHOOSE i \in DOMAIN op[s].scan :
        op[s].scan[i] = [domain |-> r.domain, path |-> r.path]

\* The scanned files with the phrase of the search in slot s.
Matching(s) ==
    {op[s].scan[i] : i \in {j \in DOMAIN op[s].scan :
        OccurrencesIn(Stored(op[s].scan[j]), op[s].query) >= 1}}

Returned(s) ==
    {[domain |-> op[s].results[i].domain, path |-> op[s].results[i].path] :
        i \in DOMAIN op[s].results}

SingleWord(query) ==
    Len(query) >= 2 /\ \A i \in DOMAIN query : ~IsSpace(query[i])

InTitleArea(content, query) ==
    OccurrencesIn(SliceTo(content, 200), query) >= 1

\* C21: for a query of one word of two characters or more, of two returned
\* pages that have the word in their first 200 characters the one with more
\* occurrences has the higher score and comes first, and a matching page
\* that is not returned has no more occurrences than a returned one.
C21_MoreOccurrencesRankHigher ==
    \A s \in Slots :
        (Searched(s) /\ SingleWord(op[s].query)) =>
            LET R == op[s].results
                q == op[s].query
            IN /\ \A i, j \in DOMAIN R :
                     ( /\ InTitleArea(Stored(R[i]), q)
                       /\ InTitleArea(Stored(R[j]), q)
                       /\ OccurrencesIn(Stored(R[i]), q)
                             > OccurrencesIn(Stored(R[j]), q) )
                     => R[i].score > R[j].score /\ i < j
               /\ \A e \in Matching(s) \ Returned(s), j \in DOMAIN R :
                     (InTitleArea(Stored(e), q) /\ InTitleArea(Stored(R[j]), q))
                         => OccurrencesIn(Stored(e), q)
                                <= OccurrencesIn(Stored(R[j]), q)

\* A search for "ab" has met a page with one occurrence before a page with
\* two and returned them the other way round.
C21_Witness ==
    \E s \in Slots :
        /\ Searched(s) /\ op[s].query = <<"a", "b">>
        /\ Len(op[s].results) >= 2
        /\ OccurrencesIn(Stored(op[s].results[1]), op[s].query) = 2
        /\ OccurrencesIn(Stored(op[s].results[2]), op[s].query) = 1
        /\ ScanPlace(s, op[s].results[2]) < ScanPlace(s, op[s].results[1])

\* C22: a search returns at most limit results, every one the file of a
\* scanned page with the phrase, in the order of their scores from the
\* highest down, pages of the same score in the order they were scanned;
\* pages are left out only when the limit is reached, and none of them has a
\* higher score than a returned one.
C22_SortedAndLimited ==
    \A s \in Slots :
        Searched(s) =>
            LET R == op[s].results
                q == op[s].query
            IN /\ Len(R) <= op[s].limit
               /\ Returned(s) \subseteq Matching(s)
               /\ Cardinality(Returned(s)) = Len(R)
               /\ \A i \in DOMAIN R : R[i].score = calculateScore(Stored(R[i]), q)
               /\ \A i, j \in DOMAIN R :
                     i < j =>
                         /\ R[i].score >= R[j].score
                         /\ R[i].score = R[j].score =>
                               ScanPlace(s, R[i]) < ScanPlace(s, R[j])
               /\ Matching(s) # Returned(s) => Len(R) = op[s].limit
               /\ \A e \in Matching(s) \ Returned(s), j \in DOMAIN R :
                     calculateScore(Stored(e), q) <= R[j].score

\* A search with limit 1 has met two pages of the same score, returned the
\* first and left a page out.
C22_Witness ==
    \E s \in Slots :
        /\ Searched(s) /\ op[s].limit = 1 /\ Len(op[s].results) = 1
        /\ \E e \in Matching(s) \ Returned(s) :
              /\ calculateScore(Stored(e), op[s].query) = op[s].results[1].score
              /\ ScanPlace(s, op[s].results[1]) < ScanPlace(s, e)
        /\ ScanPlace(s, op[s].results[1]) > 1

\* C23: when the tool function of any handler has ended, the next thing
\* that happens to the invocation is the handler's return: with the error
\* flag and the error's message when the function threw, without the flag
\* when it returned.  Nothing is thrown on to the caller.
C23_HandlersCatchAll ==
    [][\A s \in Slots :
          (op[s].pc \in {"done", "failed"} /\ op'[s] # op[s]) =>
              /\ op'[s].pc = "replied"
              /\ op'[s].kind = op[s].kind
              /\ op'[s].isError = (op[s].pc = "failed")
              /\ op'[s].tool \in ToolsOf(op[s].kind)
              /\ op[s].pc = "failed" =>
                    /\ Len(op'[s].text) = 2
                    /\ op'[s].text[2] = op[s].error]_vars

\* A scrape whose write was rejected has been answered with the flag and
\* the message.
C23_Witness ==
    \E s \in Slots :
        /\ op[s].pc = "replied" /\ op[s].tool = "scrape_docs"
        /\ op[s].isError
        /\ op[s].text = <<"Error scraping docs: ", "StorageError">>

\* "# Title\n\nHello **world**."
HeadingAndSentence ==
    <<"#", " ", "T", "i", "t", "l", "e", "\n", "\n",
      "H", "e", "l", "l", "o", " ", "*", "*", "w", "o", "r", "l", "d", "*", "*", ".">>

\* C24 (as amended): the word count of "# Title\n\nHello **world**." is 3:
\* the word of the heading counts too.
C24_HeadingWordCounted ==
    \A s \in Slots :
        (op[s].kind = "words" /\ op[s].text = HeadingAndSentence) =>
            op[s].wordCount = 3

\* The words of that text have been counted.
C24_Witness ==
    \E s \in Slots :
        /\ op[s].kind = "words" /\ op[s].pc = "done"
        /\ op[s].text = HeadingAndSentence

\* C24 (as stated): the word count of "# Title\n\nHello **world**." is 2.
C24_WordCountIsTwo ==
    \A s \in Slots :
        (op[s].kind = "words" /\ op[s].text = HeadingAndSentence) =>
            op[s].wordCount = 2

\* The markdown the crawl returned for the page a metadata record is of.
ContentOf(pg) ==
    LET pool == FullPool(pg.sourceUrl)
    IN pool[CHOOSE k \in DOMAIN pool : pool[k].sourceURL = <<pg.sourceUrl>>].markdown

\* C25: get_doc for a path the metadata of the domain records, given as it
\* is recorded or without its .md, returns the content of that page; for a
\* path that has no file, with the extension or without, it fails with
\* DocumentNotFound.
C25_RecordedPathsReadable ==
    \A s \in Slots :
        ( /\ op[s].kind = "get" /\ op[s].docPath # <<>>
          /\ op[s].domain \in DOMAIN meta /\ op[s].domain \in dirs )
        => LET d == op[s].domain
               p == op[s].docPath[1]
           IN /\ \A k \in DOMAIN meta[d].pages :
                    (p = meta[d].pages[k].path \/ p \o MD_EXT = meta[d].pages[k].path)
                    => /\ op[s].pc = "done"
                       /\ op[s].doc.content = ContentOf(meta[d].pages[k])
              /\ (p \notin DOMAIN files[d] /\ p \o MD_EXT \notin DOMAIN files[d])
                    => op[s].pc = "failed" /\ op[s].error = "DocumentNotFound"

SourcesOf(pages) == [k \in DOMAIN pages |-> pages[k].sourceUrl]

PathsOf(pages) == [k \in DOMAIN pages |-> pages[k].path]

\* The scrape in slot s has named and written all its pages, and the stored
\* metadata of its domain is of an earlier scrape of the same source URLs in
\* the same order.
SameBatchAgain(s) ==
    /\ op[s].kind = "scrape" /\ op[s].pc = "meta"
    /\ op[s].domain \in DOMAIN meta
    /\ SourcesOf(meta[op[s].domain].pages) = SourcesOf(op[s].scrapedPages)

\* C26: a scrape of the same source URLs in the same order gives its pages
\* the file names the earlier scrape gave them, whatever files the directory
\* of the domain holds by then.
C26_NamesFromBatchOnly ==
    \A s \in Slots :
        SameBatchAgain(s) =>
            PathsOf(op[s].scrapedPages) = PathsOf(meta[op[s].domain].pages)

\* A batch of two pages that resolve to the same name has been scraped
\* again over the files of its first scrape.
C26_Witness ==
    \E s \in Slots :
        /\ SameBatchAgain(s)
        /\ PathsOf(op[s].scrapedPages) = <<<<"a">> \o MD_EXT, <<"a", "_", "1">> \o MD_EXT>>
        /\ {<<"a">> \o MD_EXT, <<"a", "_", "1">> \o MD_EXT}
               \subseteq DOMAIN files[op[s].domain]

\* What the index holds of a metadata record.
SummaryOf(m) ==
    [scrapedAt |-> m.scrapedAt, pageCount |-> m.pageCount,
     sourceUrl |-> m.sourceUrl, tags |-> m.tags, version |-> m.version,
     totalWordCount |-> m.totalWordCount]

C28_VersionsOnlyGrow ==
    \A s \in Slots :
        (op[s].kind = "scrape" /\ op[s].pc = "meta") =>
            ScrapeMetadata(op[s]).version > assigned[op[s].domain]

\* The name without its extension.
BaseOf(filename) == SubSeq(filename, 1, Len(filename) - Len(MD_EXT))

\* base_n.md
Numbered(filename, n) == BaseOf(filename) \o <<"_">> \o NumToStr(n) \o MD_EXT

\* The name the rule "base.md, else base_n.md for the smallest n >= 1 that is
\* unused" gives a page whose resolved name is filename.
SmallestUnused(filename, used) ==
    IF filename \notin used THEN filename
    ELSE LET free == {n \in 1..(Cardinality(used) + 1) :
                         Numbered(filename, n) \notin used}
         IN Numbered(filename, CHOOSE n \in free : \A m \in free : n <= m)

\* C29: every page a scrape has stored is stored under its resolved name, or
\* when that name was already used in the batch, under base_n.md for the
\* smallest n >= 1 whose name was unused.
C29_SmallestSuffix ==
    \A s \in Slots :
        op[s].kind = "scrape" /\ op[s].pc \in {"page", "meta"} =>
            \A k \in 1..Len(op[s].scrapedPages) :
                op[s].scrapedPages[k].path =
                    SmallestUnused(
                        urlToFilename(op[s].scrapedPages[k].sourceUrl),
                        {op[s].scrapedPages[j].path : j \in 1..(k - 1)})

\* The part of a name that comes from the query string and the fragment.
QueryAndHash(sourceUrl) ==
    (IF sourceUrl.search # <<>>
     THEN <<"_">> \o CollapseUnderscores(ReplaceQueryChars(sourceUrl.search))
     ELSE <<>>)
    \o (IF sourceUrl.hash # <<>>
        THEN <<"_">> \o RemoveFirst(sourceUrl.hash, "#") ELSE <<>>)

\* C30: the name of a URL with a query string or a fragment ends in the
\* transformed query and the fragment, also when the path of the URL is
\* empty: the name is then index followed by them, not plain index.
C30_QueryAlwaysAppended ==
    \A s \in Slots :
        op[s].kind = "resolve" =>
            LET u == op[s].sourceUrl
                path == StripTrailingSlash(StripLeadingSlash(u.pathname))
                stem == IF path = <<>> THEN <<"i", "n", "d", "e", "x">>
                        ELSE ReplaceChar(path, "/", <<"_">>)
            IN op[s].filename = stem \o QueryAndHash(u) \o MD_EXT

\* C31: every result of a search is a page of the metadata its domain has
\* stored, that is, of the domain's latest scrape.
C31_ResultsOfCurrentVersion ==
    \A s \in Slots :
        Searched(s) =>
            \A i \in DOMAIN op[s].results :
                LET r == op[s].results[i]
                IN /\ r.domain \in DOMAIN meta
                   /\ \E k \in DOMAIN meta[r.domain].pages :
                          meta[r.domain].pages[k].path = r.path

\* The words of a query as places in it: the longest stretches without
\* white space, <<first, last>>.
WordPlaces(query) ==
    {w \in (DOMAIN query) \X (DOMAIN query) :
        /\ w[1] <= w[2]
        /\ \A i \in w[1]..w[2] : ~IsSpace(query[i])
        /\ w[1] = 1 \/ IsSpace(query[w[1] - 1])
        /\ w[2] = Len(query) \/ IsSpace(query[w[2] + 1])}

RECURSIVE WordOccurrences(_, _, _)
\* The occurrences in the content of the words at the places W that have
\* two characters or more, added up.
WordOccurrences(content, query, W) ==
    IF W = {} THEN 0
    ELSE LET w == CHOOSE x \in W : TRUE
         IN (IF w[2] - w[1] + 1 >= 2
             THEN OccurrencesIn(content, SubSeq(query, w[1], w[2])) ELSE 0)
            + WordOccurrences(content, query, W \ {w})

Exponential(s, k) == op[s].config.baseDelayMs * 2^(k - 1)

\* C33 (as amended): the delay slept after the failed attempt with index a
\* is baseDelay * 2^a plus the jitter, cut down to maxDelay when the sum is
\* above it: the cap applies to the sum, and no delay is above maxDelay.
C33_JitterInsideCap ==
    \A s \in Slots :
        op[s].kind = "crawl" =>
            \A k \in DOMAIN op[s].sleeps :
                /\ op[s].jitters[k] \in 0..(JITTER_MS - 1)
                /\ op[s].sleeps[k] <= op[s].config.maxDelayMs
                /\ op[s].sleeps[k] =
                       IF Exponential(s, k) + op[s].jitters[k]
                              <= op[s].config.maxDelayMs
                       THEN Exponential(s, k) + op[s].jitters[k]
                       ELSE op[s].config.maxDelayMs

\* A first delay whose exponential part is below the cap and whose jitter
\* takes the sum above it has been slept: the delay is the cap.
C33_Witness ==
    \E s \in Slots :
        /\ op[s].kind = "crawl"
        /\ Len(op[s].sleeps) >= 1
        /\ Exponential(s, 1) < op[s].config.maxDelayMs
        /\ Exponential(s, 1) + op[s].jitters[1] > op[s].config.maxDelayMs
        /\ op[s].sleeps[1] = op[s].config.maxDelayMs

\* C33 (as stated): the delay is the exponential part cut down to maxDelay,
\* plus the jitter.
C33_JitterAfterCap ==
    \A s \in Slots :
        op[s].kind = "crawl" =>
            \A k \in DOMAIN op[s].sleeps :
                op[s].sleeps[k] =
                    (IF Exponential(s, k) <= op[s].config.maxDelayMs
                     THEN Exponential(s, k) ELSE op[s].config.maxDelayMs)
                    + op[s].jitters[k]

\* The crawl in slot s has been started and has not ended.
Crawling(s) == op[s].kind = "crawl" /\ op[s].pc \notin {"done", "failed"}

\* C34: a crawl that has started ends with its pages or with an error, and
\* until then no request of it has made more attempts than the retry budget
\* and no more than 120 status polls have begun.
C34_CrawlEnds ==
    /\ [](\A s \in Slots :
            op[s].kind = "crawl" =>
                /\ op[s].calls <= op[s].config.maxRetries
                /\ op[s].attempts <= MAX_POLL_ATTEMPTS
                /\ (Crawling(s) /\ op[s].phase = "poll") =>
                       op[s].attempts < MAX_POLL_ATTEMPTS)
    /\ \A s \in Slots :
           Crawling(s) ~> (op[s].kind = "crawl" /\ op[s].pc \in {"done", "failed"})

\* A crawl has ended on its 120th poll after that poll's status request
\* used the whole retry budget but its last attempt.
C34_Witness ==
    \E s \in Slots :
        /\ op[s].kind = "crawl" /\ op[s].pc = "failed"
        /\ op[s].attempts = MAX_POLL_ATTEMPTS
        /\ op[s].calls = op[s].config.maxRetries

\* The call of commitFiles in slot s has returned.
Committed(s) == op[s].kind = "commitFiles" /\ op[s].pc = "done"

C36_IndexFailureTolerated ==
    [][ \A s \in Slots :
          ( /\ op[s].kind = "delete"
            /\ op[s].pc \in {"readIndex", "writeIndex"}
            /\ op'[s] # op[s] )
          => /\ op'[s].kind = "delete"
             /\ op'[s].pc \in {"writeIndex", "done"}
             /\ op'[s].pagesDeleted = op[s].pagesDeleted
             /\ op'[s].domain \notin DOMAIN files'
      ]_vars

\* A deletion has returned the count of a page it removed although the
\* write of the index failed and the index still has the domain.
C36_Witness ==
    \E s \in Slots :
        /\ op[s].kind = "delete" /\ op[s].pc = "done"
        /\ "indexFailed" \in DOMAIN op[s]
        /\ op[s].pagesDeleted >= 1
        /\ op[s].domain \notin DOMAIN files
        /\ indexFile # <<>> /\ op[s].domain \in DOMAIN indexFile[1].sites

\* The domains a listDocs or getStats reply names.
DomainsRead(o) ==
    IF o.kind = "list" THEN {site.domain : site \in o.sites}
    ELSE {site.domain : site \in o.domains}

\* C37: the domains that listDocs or getStats reads from the index have
\* their directory on storage at the moment of the read, also while a scrape
\* or a deletion is under way.
C37_ReadersSeeStoredDomains ==
    [][ \A s \in Slots :
          (op[s] = Idle /\ op'[s].kind \in {"list", "stats"})
              => DomainsRead(op'[s]) \subseteq DOMAIN files
      ]_vars

\* C38: the step in which a scrape ends with the error of its crawl is its
\* first and only one, and it leaves the pages, the metadata records, the
\* index and the backup repository as they were.
C38_FailedCrawlWritesNothing ==
    [][ \A s \in Slots :
          ( /\ op'[s] # op[s]
            /\ op'[s].kind = "scrape"
            /\ op'[s].pc = "failed" /\ op'[s].error = "CrawlFailed" )
          => /\ op[s] = Idle
             /\ UNCHANGED <<fsVars, repo>>
      ]_vars

\* The crawl of a scrape of a domain that is not stored has failed while
\* another domain is stored and indexed: no directory was made for it.
C38_Witness ==
    \E s \in Slots :
        /\ op[s].kind = "scrape"
        /\ op[s].pc = "failed" /\ op[s].error = "CrawlFailed"
        /\ op[s].domain \notin dirs
        /\ \E d \in dirs : Indexed(d) /\ ContentStored(d)

\* C39: a scrape that has ended with the error of its backup commit has its
\* pages, its metadata with the version it assigned and its index entry on
\* storage; and a scrape that has read the version of stored metadata has
\* read that version, so the scrape after the failed one assigns the next.
C39_NoRollbackOnBackupError ==
    \A s \in Slots :
        /\ (op[s].kind = "scrape" /\ op[s].pc = "failed"
               /\ op[s].error = "BackupError") =>
              /\ OwnMeta(op[s]) /\ OwnEntry(op[s]) /\ OwnPages(op[s])
              /\ meta[op[s].domain].version = op[s].existingVersion + 1
              /\ indexFile[1].sites[op[s].domain].version
                     = op[s].existingVersion + 1
              /\ assigned[op[s].domain] = op[s].existingVersion + 1
        /\ (op[s].kind = "scrape" /\ op[s].pc \in {"page", "meta"}
               /\ op[s].domain \in DOMAIN meta) =>
              op[s].existingVersion = meta[op[s].domain].version

\* The backup commit of the second scrape of a domain has failed: version 2
\* is stored and indexed.
C39_Witness ==
    \E s \in Slots :
        /\ op[s].kind = "scrape" /\ op[s].pc = "failed"
        /\ op[s].error = "BackupError"
        /\ op[s].existingVersion = 1
        /\ Len(op[s].batch) >= 1
        /\ meta[op[s].domain].version = 2

\* The request of the crawl in slot s has thrown the error of its last
\* attempt, an error that is retried.
BudgetUsedUp(s) ==
    /\ op[s].kind = "crawl" /\ op[s].pc = "failed"
    /\ op[s].lastError # <<>> /\ op[s].error = op[s].lastError[1]
    /\ op[s].response # <<>> /\ op[s].response[1].kind # "ok"
    /\ ~(op[s].error.scraper /\ op[s].error.code \in NeverRetried)

\* C40: a request whose attempts all failed with errors that are retried has
\* slept once after each of them, the last one too: as many sleeps as the
\* retry budget before it throws; and while a request sleeps, it has slept
\* once for every attempt made.
C40_SleepAfterEveryFailure ==
    \A s \in Slots :
        /\ BudgetUsedUp(s) =>
              /\ op[s].calls = op[s].config.maxRetries
              /\ Len(op[s].sleeps) = op[s].config.maxRetries
        /\ (op[s].kind = "crawl" /\ op[s].pc = "backoff") =>
              Len(op[s].sleeps) = op[s].calls

\* A status request has used the default budget on rejected fetches and
\* slept three times.
C40_Witness ==
    \E s \in Slots :
        /\ BudgetUsedUp(s)
        /\ op[s].phase = "poll"
        /\ op[s].config = DEFAULT_RETRY_OPTIONS
        /\ op[s].error.code = "TypeError"
        /\ Len(op[s].sleeps) = 3

=============================================================================
